---- MODULE Spec2Model ----
(***************************************************************************)
(* Animation / camera / particle core of the COMP3811 CW2 scene viewer.    *)
(*                                                                         *)
(* Units.  The C++ code computes in float/double; the model computes in    *)
(* fixed point over the integers:                                          *)
(*   time       milliseconds          (deltaTime, animationTime, lifetime) *)
(*   length     decimetres (0.1 m)    (positions)                          *)
(*   speed      decimetres per second (velocities)                         *)
(*   direction  1/1000                (unit vectors, matrix entries)       *)
(*   angle      milliradians          (yaw, pitch)                         *)
(*   cursor     pixels                                                     *)
(***************************************************************************)
EXTENDS Integers, Sequences, FiniteSets, TLC

(***************************************************************************)
(* Bounds of the model.                                                    *)
(***************************************************************************)
\* wall-clock time (ms) after which no further frame is modelled
MaxWallTime == 2000
\* number of frame-step choices: deltaTime ranges over 0 .. MaxDtSteps half-seconds
MaxDtSteps == 2
\* largest pool capacity given to the ParticleSystem constructor
MaxParticles == 2

(***************************************************************************)
(* Fixed-point arithmetic.                                                 *)
(***************************************************************************)
\* one unit of a direction component / matrix entry
DirScale == 1000
\* milliseconds per second
MsPerSecond == 1000
\* milliseconds per frame-step unit
DtStepMs == 500

Abs(x) == IF x < 0 THEN -x ELSE x

Min(a, b) == IF a < b THEN a ELSE b

Max(a, b) == IF a > b THEN a ELSE b

\* C++ division of numbers after rounding toward zero (static_cast<int>, and
\* the symmetric rounding of float products)
DivT(a, b) == IF a >= 0 THEN a \div b ELSE -((-a) \div b)

RECURSIVE ISqrtIter(_, _, _)
ISqrtIter(n, lo, hi) ==
    IF lo >= hi THEN lo
    ELSE LET mid == (lo + hi + 1) \div 2
         IN IF mid * mid <= n THEN ISqrtIter(n, mid, hi)
                              ELSE ISqrtIter(n, lo, mid - 1)

\* std::sqrt on a non-negative integer, rounded down
ISqrt(n) == ISqrtIter(n, 0, 46340)

(***************************************************************************)
(* Trigonometry in fixed point: angles in milliradians, values in 1/1000.  *)
(***************************************************************************)
\* pi, pi/2 and 2*pi in milliradians (std::numbers::pi_v<float>)
PiMrad == 3142
HalfPiMrad == 1571
TwoPiMrad == 6283

\* std::sin on [0, pi/2]: Taylor polynomial up to x^9
SinQ(x) ==
    LET x2 == (x * x) \div 1000
        t3 == (x * x2) \div 6000
        t5 == (t3 * x2) \div 20000
        t7 == (t5 * x2) \div 42000
        t9 == (t7 * x2) \div 72000
    IN Max(0, Min(DirScale, x - t3 + t5 - t7 + t9))

\* std::sin
Sin(x) ==
    LET r == x % TwoPiMrad
    IN IF r <= HalfPiMrad THEN SinQ(r)
       ELSE IF r <= PiMrad THEN SinQ(PiMrad - r)
       ELSE IF r <= PiMrad + HalfPiMrad THEN -SinQ(r - PiMrad)
       ELSE -SinQ(TwoPiMrad - r)

\* std::cos
Cos(x) == Sin(x + HalfPiMrad)

RECURSIVE AsinIter(_, _, _)
AsinIter(y, lo, hi) ==
    IF lo >= hi THEN lo
    ELSE LET mid == (lo + hi + 1) \div 2
         IN IF SinQ(mid) <= y THEN AsinIter(y, mid, hi)
                              ELSE AsinIter(y, lo, mid - 1)

\* std::asin of y/1000, by bisection on [0, pi/2]
Asin(y) ==
    IF y >= 0 THEN AsinIter(Min(y, DirScale), 0, HalfPiMrad)
              ELSE -AsinIter(Min(-y, DirScale), 0, HalfPiMrad)

RECURSIVE AtanIter(_, _, _, _)
AtanIter(z, x, lo, hi) ==
    IF lo >= hi THEN lo
    ELSE LET mid == (lo + hi + 1) \div 2
         IN IF SinQ(mid) * x <= SinQ(HalfPiMrad - mid) * z
            THEN AtanIter(z, x, mid, hi)
            ELSE AtanIter(z, x, lo, mid - 1)

\* std::atan2(z, x) for direction components z, x in 1/1000
Atan2(z, x) ==
    IF z = 0 /\ x = 0 THEN 0
    ELSE LET q == AtanIter(Abs(z), Abs(x), 0, HalfPiMrad)
         IN IF x >= 0 THEN (IF z >= 0 THEN q ELSE -q)
                      ELSE (IF z >= 0 THEN PiMrad - q ELSE -(PiMrad - q))

(***************************************************************************)
(* Vec3f: triples <<x, y, z>>.                                              *)
(***************************************************************************)
VAdd(a, b) == <<a[1] + b[1], a[2] + b[2], a[3] + b[3]>>

VSub(a, b) == <<a[1] - b[1], a[2] - b[2], a[3] - b[3]>>

VNeg(a) == <<-a[1], -a[2], -a[3]>>

\* v * (num / den), each component rounded toward zero
VScale(v, num, den) ==
    <<DivT(v[1] * num, den), DivT(v[2] * num, den), DivT(v[3] * num, den)>>

Dot(a, b) == a[1] * b[1] + a[2] * b[2] + a[3] * b[3]

\* cross product of two vectors whose product fits the integers, unscaled
Cross(a, b) ==
    <<a[2] * b[3] - a[3] * b[2],
      a[3] * b[1] - a[1] * b[3],
      a[1] * b[2] - a[2] * b[1]>>

Length(v) == ISqrt(Dot(v, v))

\* normalize(v): the unit vector in 1/1000.  The vector is first scaled so
\* that its largest component is near 20000, which keeps three decimal
\* digits in the integer square root.  (A zero vector, NaN in C++, is left
\* as it is; no caller of the model passes one.)
Normalize(v) ==
    LET m == Max(Abs(v[1]), Max(Abs(v[2]), Abs(v[3])))
        k == IF m = 0 THEN 1 ELSE Max(1, 20000 \div m)
        d == (m \div 20000) + 1
        w == IF m > 20000 THEN <<DivT(v[1], d), DivT(v[2], d), DivT(v[3], d)>>
                          ELSE <<v[1] * k, v[2] * k, v[3] * k>>
        len == Length(w)
    IN IF len = 0 THEN v ELSE VScale(w, DirScale, len)

(***************************************************************************)
(* Camera (support/camera.cpp).                                            *)
(***************************************************************************)
\* world up axis, the default argument of Camera::look_at
WorldUp == <<0, DirScale, 0>>

\* Camera::Camera
NewCamera ==
    [position |-> <<0, 0, 0>>,
     forward  |-> <<0, 0, -DirScale>>,
     right    |-> <<DirScale, 0, 0>>,
     up       |-> <<0, DirScale, 0>>,
     yaw      |-> 0,
     pitch    |-> 0]

\* distances are in decimetres, the basis vectors in 1/1000
move_forward(c, distance) ==
    [c EXCEPT !.position = VAdd(c.position, VScale(c.forward, distance, DirScale))]

move_backward(c, distance) ==
    [c EXCEPT !.position = VSub(c.position, VScale(c.forward, distance, DirScale))]

move_left(c, distance) ==
    [c EXCEPT !.position = VSub(c.position, VScale(c.right, distance, DirScale))]

move_right(c, distance) ==
    [c EXCEPT !.position = VAdd(c.position, VScale(c.right, distance, DirScale))]

move_up(c, distance) ==
    [c EXCEPT !.position = VAdd(c.position, VScale(c.up, distance, DirScale))]

move_down(c, distance) ==
    [c EXCEPT !.position = VSub(c.position, VScale(c.up, distance, DirScale))]

\* Camera::update_vectors
update_vectors(c) ==
    LET f == Normalize(<<DivT(Cos(c.yaw) * Cos(c.pitch), DirScale),
                         Sin(c.pitch),
                         DivT(Sin(c.yaw) * Cos(c.pitch), DirScale)>>)
        r == Normalize(Cross(f, WorldUp))
        u == Normalize(Cross(r, f))
    IN [c EXCEPT !.forward = f, !.right = r, !.up = u]

\* Camera::rotate_yaw
rotate_yaw(c, angle) == update_vectors([c EXCEPT !.yaw = c.yaw + angle])

\* maxPitch in Camera::rotate_pitch, 1.55 rad
maxPitch == 1550

\* a rotate_pitch that accumulates the pitch without the clamp
rotate_pitch_unclamped(c, angle) ==
    update_vectors([c EXCEPT !.pitch = c.pitch + angle])

\* Camera::rotate_pitch
rotate_pitch(c, angle) ==
    LET p1 == c.pitch + angle
        p2 == IF p1 > maxPitch THEN maxPitch ELSE p1
        p3 == IF p2 < -maxPitch THEN -maxPitch ELSE p2
    IN update_vectors([c EXCEPT !.pitch = p3])

\* Camera::set_position
set_position(c, pos) == [c EXCEPT !.position = pos]

\* a look_at that turns the basis but leaves yaw and pitch as they were
look_at_keeping_angles(c, target) ==
    LET f == Normalize(VSub(target, c.position))
        r == Normalize(Cross(f, WorldUp))
        u == Normalize(Cross(r, f))
    IN [c EXCEPT !.forward = f, !.right = r, !.up = u]

\* Camera::look_at
look_at(c, target) ==
    LET f == Normalize(VSub(target, c.position))
        r == Normalize(Cross(f, WorldUp))
        u == Normalize(Cross(r, f))
    IN [c EXCEPT !.forward = f, !.right = r, !.up = u,
                 !.pitch = Asin(f[2]), !.yaw = Atan2(f[3], f[1])]

(***************************************************************************)
(* Mat44f (vmlib/mat44.hpp): row-major 16-tuples, entry v[k] of the C++    *)
(* array is element k+1 of the tuple, entries in 1/1000.                   *)
(***************************************************************************)
kIdentity44f ==
    <<DirScale, 0, 0, 0,
      0, DirScale, 0, 0,
      0, 0, DirScale, 0,
      0, 0, 0, DirScale>>

make_rotation_y(aAngle) ==
    LET c == Cos(aAngle)
        s == Sin(aAngle)
    IN <<c, 0, s, 0,
         0, DirScale, 0, 0,
         -s, 0, c, 0,
         0, 0, 0, DirScale>>

\* a product whose inner loop reads the right operand by columns
MatMulRightTransposed(aLeft, aRight) ==
    [idx \in 1 .. 16 |->
        LET i == (idx - 1) \div 4
            j == (idx - 1) % 4
        IN DivT(aLeft[i * 4 + 1] * aRight[j * 4 + 1], DirScale)
           + DivT(aLeft[i * 4 + 2] * aRight[j * 4 + 2], DirScale)
           + DivT(aLeft[i * 4 + 3] * aRight[j * 4 + 3], DirScale)
           + DivT(aLeft[i * 4 + 4] * aRight[j * 4 + 4], DirScale)]

\* operator*( Mat44f, Mat44f ): result.v[i*4 + j] is the sum over k of
\* aLeft.v[i*4 + k] * aRight.v[k*4 + j], each product rounded to 1/1000
MatMul(aLeft, aRight) ==
    [idx \in 1 .. 16 |->
        LET i == (idx - 1) \div 4
            j == (idx - 1) % 4
        IN DivT(aLeft[i * 4 + 1] * aRight[0 * 4 + j + 1], DirScale)
           + DivT(aLeft[i * 4 + 2] * aRight[1 * 4 + j + 1], DirScale)
           + DivT(aLeft[i * 4 + 3] * aRight[2 * 4 + j + 1], DirScale)
           + DivT(aLeft[i * 4 + 4] * aRight[3 * 4 + j + 1], DirScale)]

\* operator*( Mat44f, Vec4f ): a Vec4f is a 4-tuple <<x, y, z, w>>
MatVec(aLeft, aRight) ==
    [i \in 1 .. 4 |->
        DivT(aLeft[(i - 1) * 4 + 1] * aRight[1], DirScale)
        + DivT(aLeft[(i - 1) * 4 + 2] * aRight[2], DirScale)
        + DivT(aLeft[(i - 1) * 4 + 3] * aRight[3], DirScale)
        + DivT(aLeft[(i - 1) * 4 + 4] * aRight[4], DirScale)]

\* the matrix k * I that the "Known multiplication" section multiplies by
ScalarMatrix(k) ==
    <<k, 0, 0, 0,
      0, k, 0, 0,
      0, 0, k, 0,
      0, 0, 0, k>>

(***************************************************************************)
(* Scripted trajectory (main loop of main.cpp, "Calculate vehicle position *)
(* and rotation based on animation").  Progress values are in 1/10000.     *)
(***************************************************************************)
ProgScale == 10000

\* accelerationPhase = 3.0 s
accelerationPhase == 3000

\* maxDistance = 300 m and maxHeight = 200 m, in decimetres
maxDistance == 3000
maxHeight == 2000

\* normalizedT: (t/Ta)^2 in the acceleration phase, 1 + (t - Ta)/Ta after it
normalizedT(t) ==
    IF t < accelerationPhase
    THEN (t * t) \div ((accelerationPhase * accelerationPhase) \div ProgScale)
    ELSE ProgScale + ((t - accelerationPhase) * ProgScale) \div accelerationPhase

\* normalizedTVelocity: d(normalizedT)/dt per second
normalizedTVelocity(t) ==
    IF t < accelerationPhase
    THEN (2 * t * ProgScale)
            \div ((accelerationPhase * accelerationPhase) \div MsPerSecond)
    ELSE (ProgScale * MsPerSecond) \div accelerationPhase

\* a progress that is not clamped
tProgressUnclamped(t) == normalizedT(t)

\* tProgress = std::min(normalizedT, 1.0f)
tProgress(t) == Min(normalizedT(t), ProgScale)

\* a height whose levelling term is 1.4 instead of 0.4
verticalOverLevelled(p) ==
    -((p * (14 * p - 10 * ProgScale)) \div ((10 * ProgScale * ProgScale) \div maxHeight))

\* vertical = tProgress * maxHeight * (1 - tProgress * 0.4)
vertical(p) ==
    (p * (10 * ProgScale - 4 * p)) \div ((10 * ProgScale * ProgScale) \div maxHeight)

\* forwardDist = tProgress^3 * maxDistance
forwardDist(p) ==
    LET p2 == (p * p) \div ProgScale
        p3 == (p2 * p) \div ProgScale
    IN (p3 * maxDistance) \div ProgScale

\* a lateral curve without the factor 0.15
horizontalCurveFullSwing(p) ==
    (Sin((p * HalfPiMrad) \div ProgScale) * maxDistance) \div DirScale

\* horizontalCurve = sin(tProgress * pi/2) * maxDistance * 0.15
horizontalCurve(p) ==
    (Sin((p * HalfPiMrad) \div ProgScale) * ((maxDistance * 15) \div 100)) \div DirScale

\* the position offset from the launch origin at animation time t
TrajectoryOffset(t) ==
    LET p == tProgress(t)
    IN <<horizontalCurve(p), vertical(p), -forwardDist(p)>>

\* a velocity whose vertical part is the derivative of a height with the
\* levelling term 1.4: it turns downwards after a third of the progress
TrajectoryVelocityDescending(t) ==
    LET p == tProgress(t)
        dtProgress_dT == normalizedTVelocity(t)
        cx == (Cos((p * HalfPiMrad) \div ProgScale) * HalfPiMrad) \div DirScale
        dX_dT == DivT(DivT(cx * ((maxDistance * 15) \div 100), DirScale) * dtProgress_dT,
                      ProgScale)
        dY_dT == DivT(DivT(dtProgress_dT * (ProgScale - (28 * p) \div 10), ProgScale)
                        * maxHeight, ProgScale)
        p2 == (p * p) \div ProgScale
        dZ_dT == -DivT(((3 * p2 * maxDistance) \div ProgScale) * dtProgress_dT, ProgScale)
    IN <<dX_dT, dY_dT, dZ_dT>>

\* velocity = (dX_dT, dY_dT, dZ_dT), the exact derivative of the position
\* functions, in decimetres per second
TrajectoryVelocity(t) ==
    LET p == tProgress(t)
        dtProgress_dT == normalizedTVelocity(t)
        cx == (Cos((p * HalfPiMrad) \div ProgScale) * HalfPiMrad) \div DirScale
        dX_dT == DivT(DivT(cx * ((maxDistance * 15) \div 100), DirScale) * dtProgress_dT,
                      ProgScale)
        dY_dT == DivT(DivT(dtProgress_dT * (ProgScale - (8 * p) \div 10), ProgScale)
                        * maxHeight, ProgScale)
        p2 == (p * p) \div ProgScale
        dZ_dT == -DivT(((3 * p2 * maxDistance) \div ProgScale) * dtProgress_dT, ProgScale)
    IN <<dX_dT, dY_dT, dZ_dT>>

\* product of three 1/1000 values
Mul3(a, b, c) == DivT(DivT(a * b, DirScale) * c, DirScale)

\* Rodrigues' rotation formula for a unit axis and an angle
Rodrigues(axis, angle) ==
    LET c == Cos(angle)
        s == Sin(angle)
        t_rot == DirScale - c
        sx == DivT(s * axis[1], DirScale)
        sy == DivT(s * axis[2], DirScale)
        sz == DivT(s * axis[3], DirScale)
    IN <<Mul3(t_rot, axis[1], axis[1]) + c,
         Mul3(t_rot, axis[1], axis[2]) - sz,
         Mul3(t_rot, axis[1], axis[3]) + sy,
         0,
         Mul3(t_rot, axis[1], axis[2]) + sz,
         Mul3(t_rot, axis[2], axis[2]) + c,
         Mul3(t_rot, axis[2], axis[3]) - sx,
         0,
         Mul3(t_rot, axis[1], axis[3]) - sy,
         Mul3(t_rot, axis[2], axis[3]) + sx,
         Mul3(t_rot, axis[3], axis[3]) + c,
         0,
         0, 0, 0, DirScale>>

\* the rocket's default forward direction, +Y
rocketForward == <<0, 1, 0>>

\* vehicle_rotation for a velocity vector: aligns +Y with the tangent
RotationFromVelocity(velocity) ==
    IF 100 * Length(velocity) > 1      \* length(velocity) > 0.001f (m/s)
    THEN LET targetForward == Normalize(velocity)
             axis == Cross(rocketForward, targetForward)
             axisLen == Length(axis)
             cosAngle == Max(-DirScale, Min(DirScale, Dot(rocketForward, targetForward)))
         IN IF axisLen > 1             \* axisLen > 0.001f
            THEN Rodrigues(Normalize(axis), HalfPiMrad - Asin(cosAngle))
            ELSE IF Dot(rocketForward, targetForward) * 100 < -99 * DirScale
                 THEN make_rotation_y(PiMrad)
                 ELSE kIdentity44f
    ELSE kIdentity44f

\* the branch "Opposite direction, rotate 180 degrees around Y axis" is the
\* one RotationFromVelocity takes for this velocity
ReversalFallbackTaken(velocity) ==
    /\ 100 * Length(velocity) > 1
    /\ Length(Cross(rocketForward, Normalize(velocity))) <= 1
    /\ Dot(rocketForward, Normalize(velocity)) * 100 < -99 * DirScale

\* the pose of one frame: current_vehicle_pos and vehicle_rotation
EvaluatePose(active, t, origin) ==
    IF active
    THEN [pos |-> VAdd(origin, TrajectoryOffset(t)),
          rot |-> RotationFromVelocity(TrajectoryVelocity(t))]
    ELSE [pos |-> origin, rot |-> kIdentity44f]

(***************************************************************************)
(* ParticleSystem (support/particle_system.cpp).                           *)
(* A Particle is a record; color is <<r, g, b, a>> in 1/1000; the emission *)
(* accumulator counts 1/1000 particles.                                    *)
(***************************************************************************)
\* a value-initialised Particle, as particles_.resize() creates it
NewParticle ==
    [position |-> <<0, 0, 0>>, velocity |-> <<0, 0, 0>>,
     color |-> <<0, 0, 0, 0>>, lifetime |-> 0, size |-> 0, active |-> FALSE]

\* the pool built by ParticleSystem::ParticleSystem(maxParticles)
NewPool(maxParticles) == [i \in 1 .. maxParticles |-> NewParticle]

\* emissionDirection_ set by main: straight down
emissionDirection == <<0, -DirScale, 0>>

\* emissionSpread_ set by main: 0.4 rad
emissionSpread == 400

\* random_cone_direction for the angles theta and phi the generator drew
random_cone_direction(baseDir, theta, phi) ==
    LET up0 == IF Abs(baseDir[2]) * 10 < 9 * DirScale THEN <<0, DirScale, 0>>
                                                    ELSE <<DirScale, 0, 0>>
        right == Normalize(Cross(up0, baseDir))
        up == Normalize(Cross(baseDir, right))
        side == VAdd(VScale(right, Cos(phi), DirScale), VScale(up, Sin(phi), DirScale))
        direction == VAdd(VScale(baseDir, Cos(theta), DirScale),
                          VScale(side, Sin(theta), DirScale))
    IN Normalize(direction)

\* One outcome of the random draws made for one emitted particle:
\* lifetime (ms), size (1/10), cone angles (mrad), speed (dm/s), colour.
\* The draws range over the ends of the intervals main configures:
\* lifetime 0.5 .. 1.5 s, size 0.8 .. 2.0, speed 10 .. 25 m/s.
Draws ==
    { [lifetime |-> 500,  size |-> 8,  theta |-> 0,   phi |-> 0, speed |-> 100,
       rgb |-> <<800, 500, 100>>],
      [lifetime |-> 1500, size |-> 20, theta |-> 400, phi |-> 0, speed |-> 250,
       rgb |-> <<1000, 800, 300>>] }

\* an aging step that also moves and fades the particle it deactivates
AgeParticleMovesExpired(p, deltaT, maxLifetime) ==
    IF ~p.active THEN p
    ELSE LET life == p.lifetime - deltaT
         IN [p EXCEPT !.lifetime = life,
                      !.active = life > 0,
                      !.position = VAdd(p.position,
                                        VScale(p.velocity, deltaT, MsPerSecond)),
                      !.color = <<p.color[1], p.color[2], p.color[3],
                                  (life * DirScale) \div maxLifetime>>]

\* an aging step that keeps a particle whose lifetime is exactly used up
AgeParticleExpiringBelowZero(p, deltaT, maxLifetime) ==
    IF ~p.active THEN p
    ELSE LET life == p.lifetime - deltaT
         IN IF life < 0
            THEN [p EXCEPT !.lifetime = life, !.active = FALSE]
            ELSE [p EXCEPT !.lifetime = life,
                           !.position = VAdd(p.position,
                                             VScale(p.velocity, deltaT, MsPerSecond)),
                           !.color = <<p.color[1], p.color[2], p.color[3],
                                       (life * DirScale) \div maxLifetime>>]

\* the body of the loop in ParticleSystem::update for one particle
AgeParticle(p, deltaT, maxLifetime) ==
    IF ~p.active THEN p
    ELSE LET life == p.lifetime - deltaT
         IN IF life <= 0
            THEN [p EXCEPT !.lifetime = life, !.active = FALSE]
            ELSE [p EXCEPT !.lifetime = life,
                           !.position = VAdd(p.position,
                                             VScale(p.velocity, deltaT, MsPerSecond)),
                           !.color = <<p.color[1], p.color[2], p.color[3],
                                       (life * DirScale) \div maxLifetime>>]

\* the aging pass of ParticleSystem::update over the whole pool
AgeAll(ps, deltaT, maxLifetime) ==
    [i \in 1 .. Len(ps) |-> AgeParticle(ps[i], deltaT, maxLifetime)]

\* a search that returns the last inactive slot instead of the first
find_inactive_particle_backwards(ps) ==
    IF \E i \in 1 .. Len(ps) : ~ps[i].active
    THEN (CHOOSE i \in 1 .. Len(ps) :
             /\ ~ps[i].active
             /\ \A j \in i + 1 .. Len(ps) : ps[j].active) - 1
    ELSE -1

\* ParticleSystem::find_inactive_particle: C index of the first inactive
\* slot, -1 when there is none
find_inactive_particle(ps) ==
    IF \E i \in 1 .. Len(ps) : ~ps[i].active
    THEN (CHOOSE i \in 1 .. Len(ps) :
             /\ ~ps[i].active
             /\ \A j \in 1 .. i - 1 : ps[j].active) - 1
    ELSE -1

\* the particle written into a free slot by emit_particles
EmittedParticle(d, emitterPosition) ==
    [position |-> emitterPosition,
     velocity |-> VScale(random_cone_direction(emissionDirection, d.theta, d.phi),
                         d.speed, DirScale),
     color    |-> <<d.rgb[1], d.rgb[2], d.rgb[3], DirScale>>,
     lifetime |-> d.lifetime,
     size     |-> d.size,
     active   |-> TRUE]

\* an emission that writes the slot found and also grows the pool by one
EmitIntoAppend(ps, idx, d, emitterPosition) ==
    Append([ps EXCEPT ![idx + 1] = EmittedParticle(d, emitterPosition)],
           EmittedParticle(d, emitterPosition))

\* the slot the i-th emission of a call writes, given the index found
EmitInto(ps, idx, d, emitterPosition) ==
    [ps EXCEPT ![idx + 1] = EmittedParticle(d, emitterPosition)]

RECURSIVE EmitLoop(_, _, _, _, _)
\* a loop that, finding no free slot, writes slot 0 before it stops
EmitLoopOverwrites(ps, i, particlesToEmit, ds, emitterPosition) ==
    IF i >= particlesToEmit THEN ps
    ELSE LET idx == find_inactive_particle(ps)
         IN IF idx < 0
            THEN EmitInto(ps, 0, ds[(i % Len(ds)) + 1], emitterPosition)
            ELSE EmitLoop(EmitInto(ps, idx, ds[(i % Len(ds)) + 1], emitterPosition),
                          i + 1, particlesToEmit, ds, emitterPosition)

\* the for loop of emit_particles: i counts from 0; ds is the sequence of
\* outcomes the random generator produces during this call, read cyclically
EmitLoop(ps, i, particlesToEmit, ds, emitterPosition) ==
    IF i >= particlesToEmit THEN ps
    ELSE LET idx == find_inactive_particle(ps)
         IN IF idx < 0 THEN ps       \* break: no free slots
            ELSE EmitLoop(EmitInto(ps, idx, ds[(i % Len(ds)) + 1], emitterPosition),
                          i + 1, particlesToEmit, ds, emitterPosition)

\* number of particles emit_particles wants to emit, and the accumulator left
ParticlesToEmit(acc, rate, deltaT) == DivT(acc + rate * deltaT, MsPerSecond)

\* an accumulator that drops the fractional remainder after each call
AccumulatorCleared(acc, rate, deltaT) == 0

AccumulatorAfter(acc, rate, deltaT) ==
    (acc + rate * deltaT) - ParticlesToEmit(acc, rate, deltaT) * MsPerSecond

\* number of inactive slots
FreeSlots(ps) == Cardinality({i \in 1 .. Len(ps) : ~ps[i].active})

\* number of active slots
ActiveCount(ps) == Cardinality({i \in 1 .. Len(ps) : ps[i].active})

\* an update that keeps the particles it could not place in the accumulator
ParticleUpdateCarryingDropped(ps, acc, rate, maxLifetime, deltaT, emitterPosition, emitting, ds) ==
    LET aged == AgeAll(ps, deltaT, maxLifetime)
        wanted == ParticlesToEmit(acc, rate, deltaT)
        dropped == Max(0, wanted - FreeSlots(aged))
    IN IF emitting
       THEN [particles |-> EmitLoop(aged, 0, wanted, ds, emitterPosition),
             accumulator |-> AccumulatorAfter(acc, rate, deltaT) + dropped * MsPerSecond]
       ELSE [particles |-> aged, accumulator |-> acc]

\* ParticleSystem::update: the pool and accumulator after the call
ParticleUpdate(ps, acc, rate, maxLifetime, deltaT, emitterPosition, emitting, ds) ==
    LET aged == AgeAll(ps, deltaT, maxLifetime)
    IN IF emitting
       THEN [particles |-> EmitLoop(aged, 0, ParticlesToEmit(acc, rate, deltaT),
                                    ds, emitterPosition),
             accumulator |-> AccumulatorAfter(acc, rate, deltaT)]
       ELSE [particles |-> aged, accumulator |-> acc]

\* the ParticleVertex update_gpu_data pushes for a particle
ParticleVertex(p) == [position |-> p.position, color |-> p.color, size |-> p.size]

RECURSIVE CollectActive(_, _, _)
\* the loop of update_gpu_data from slot i on: vertexData is the list so far
CollectActive(ps, i, vertexData) ==
    IF i > Len(ps) THEN vertexData
    ELSE IF ~ps[i].active THEN CollectActive(ps, i + 1, vertexData)
    ELSE CollectActive(ps, i + 1, Append(vertexData, ParticleVertex(ps[i])))

\* an update_gpu_data that pushes a vertex for every slot of the pool
update_gpu_data_every_slot(PS) ==
    [PS EXCEPT !.vertexData_ = [i \in 1 .. Len(PS.particles_) |->
                                   ParticleVertex(PS.particles_[i])]]

\* ParticleSystem::update_gpu_data, called by render: the object afterwards
update_gpu_data(PS) ==
    [PS EXCEPT !.vertexData_ = CollectActive(PS.particles_, 1, <<>>)]

(***************************************************************************)
(* UIButton (support/ui_system.cpp).  A button is a record with its        *)
(* rectangle, its visual state and its wasPressed_ flag.                   *)
(***************************************************************************)
\* the window size UISystem lays the widgets out for
windowWidth == 1280
windowHeight == 720

\* UISystem::add_button with UIAnchor::BottomCenter: the rectangle of a
\* button of the given size and offsets
BottomCenterButton(width, height, offsetX, offsetY) ==
    [x |-> windowWidth \div 2 + offsetX - width \div 2,
     y |-> windowHeight - offsetY - height,
     width |-> width, height |-> height,
     state_ |-> "Normal", wasPressed_ |-> FALSE]

\* UIButton::is_point_inside
is_point_inside(b, x, y) ==
    /\ x >= b.x /\ x <= b.x + b.width
    /\ y >= b.y /\ y <= b.y + b.height

\* an update that forgets the press only on release, not when the pointer
\* leaves the button
UIButtonUpdateKeepingPress(b, mouseX, mouseY, mouseDown) ==
    LET inside == is_point_inside(b, mouseX, mouseY)
    IN IF inside /\ mouseDown
       THEN [button |-> [b EXCEPT !.state_ = "Pressed", !.wasPressed_ = TRUE],
             clicked |-> FALSE]
       ELSE IF inside
       THEN [button |-> [b EXCEPT !.state_ = "Hovered", !.wasPressed_ = FALSE],
             clicked |-> b.wasPressed_ /\ ~mouseDown]
       ELSE [button |-> [b EXCEPT !.state_ = "Normal"], clicked |-> FALSE]

\* UIButton::update: the button afterwards, and whether onClick was called
UIButtonUpdate(b, mouseX, mouseY, mouseDown) ==
    LET inside == is_point_inside(b, mouseX, mouseY)
    IN IF inside /\ mouseDown
       THEN [button |-> [b EXCEPT !.state_ = "Pressed", !.wasPressed_ = TRUE],
             clicked |-> FALSE]
       ELSE IF inside
       THEN [button |-> [b EXCEPT !.state_ = "Hovered", !.wasPressed_ = FALSE],
             clicked |-> b.wasPressed_ /\ ~mouseDown]
       ELSE [button |-> [b EXCEPT !.state_ = "Normal", !.wasPressed_ = FALSE],
             clicked |-> FALSE]

(***************************************************************************)
(* struct State and the helpers of main.cpp.                               *)
(***************************************************************************)
\* vehicle_pos = launchpadA_pos + (0, 0.2, 0) = (75, -0.8, 20) m
vehicleOriginalPos == <<750, -8, 200>>

\* the movement flags of State, all released
NoMovement ==
    [moveForward |-> FALSE, moveBackward |-> FALSE, moveLeft |-> FALSE,
     moveRight |-> FALSE, moveUp |-> FALSE, moveDown |-> FALSE,
     speedBoost |-> FALSE, speedSlow |-> FALSE]

\* a launch that leaves the elapsed time as it is
LaunchCallbackKeepsTime(S) ==
    [S EXCEPT !.animationActive = TRUE, !.animationPaused = FALSE]

\* the Launch button's onClick callback
LaunchCallback(S) ==
    [S EXCEPT !.animationActive = TRUE, !.animationPaused = FALSE,
              !.animationTime = 0]

\* a reset that leaves the elapsed time as it is
ResetCallbackKeepsTime(S) ==
    [S EXCEPT !.animationActive = FALSE, !.animationPaused = FALSE]

\* the Reset button's onClick callback
ResetCallback(S) ==
    [S EXCEPT !.animationActive = FALSE, !.animationPaused = FALSE,
              !.animationTime = 0]

\* a tick that also advances a paused clock
TickAnimationWhilePaused(S, deltaT) ==
    IF S.animationActive
    THEN [S EXCEPT !.animationTime = S.animationTime + deltaT]
    ELSE S

\* "Update animation" at the top of the main loop
TickAnimation(S, deltaT) ==
    IF S.animationActive /\ ~S.animationPaused
    THEN [S EXCEPT !.animationTime = S.animationTime + deltaT]
    ELSE S

\* the Free branch of update_camera_by_mode: the camera after the moves
FreeCameraMoves(c, deltaT, m) ==
    LET b1 == 200                                        \* baseSpeed = 20 m/s
        b2 == IF m.speedBoost THEN b1 * 3 ELSE b1
        b3 == IF m.speedSlow THEN (b2 * 2) \div 10 ELSE b2
        moveDistance == (b3 * deltaT) \div MsPerSecond
        c1 == IF m.moveForward THEN move_forward(c, moveDistance) ELSE c
        c2 == IF m.moveBackward THEN move_backward(c1, moveDistance) ELSE c1
        c3 == IF m.moveLeft THEN move_left(c2, moveDistance) ELSE c2
        c4 == IF m.moveRight THEN move_right(c3, moveDistance) ELSE c3
        c5 == IF m.moveUp THEN move_up(c4, moveDistance) ELSE c4
        c6 == IF m.moveDown THEN move_down(c5, moveDistance) ELSE c5
    IN c6

\* the Follow branch: 30 m behind and 15 m above the vehicle, looking at it
FollowCamera(c, pos, rot) ==
    LET followDistance == 300
        followHeight == 150
        vehicleForward == <<-rot[9], -rot[10], -rot[11]>>
        vehicleUp == <<rot[5], rot[6], rot[7]>>
        cameraOffset == VAdd(VScale(VNeg(vehicleForward), followDistance, DirScale),
                             VScale(vehicleUp, followHeight, DirScale))
    IN look_at(set_position(c, VAdd(pos, cameraOffset)), pos)

\* the Ground branch: fixed beside the launch position, looking at the vehicle
GroundCamera(c, pos, origin) ==
    look_at(set_position(c, <<origin[1] + 200, 50, origin[3] + 200>>), pos)

\* an update that saves the camera in every mode, not only in Free
update_camera_by_mode_saving(c, freeC, mode, pos, rot, origin, deltaT, m) ==
    IF mode = "Free"
    THEN LET moved == FreeCameraMoves(c, deltaT, m)
         IN [camera |-> moved, freeCamera |-> moved]
    ELSE IF mode = "Follow"
    THEN LET followed == FollowCamera(c, pos, rot)
         IN [camera |-> followed, freeCamera |-> followed]
    ELSE LET grounded == GroundCamera(c, pos, origin)
         IN [camera |-> grounded, freeCamera |-> grounded]

\* update_camera_by_mode: the camera and the saved free camera afterwards
update_camera_by_mode(c, freeC, mode, pos, rot, origin, deltaT, m) ==
    IF mode = "Free"
    THEN LET moved == FreeCameraMoves(c, deltaT, m)
         IN [camera |-> moved, freeCamera |-> moved]
    ELSE IF mode = "Follow"
    THEN [camera |-> FollowCamera(c, pos, rot), freeCamera |-> freeC]
    ELSE [camera |-> GroundCamera(c, pos, origin), freeCamera |-> freeC]

\* a camera update that hands the movement flags to the right rig too
UpdateCamerasRightMoves(S, pos, rot, deltaT) ==
    IF ~S.splitScreenMode
    THEN LET r == update_camera_by_mode(S.camera, S.freeCamera, S.cameraMode,
                                        pos, rot, S.vehicleOriginalPos, deltaT, S.move)
         IN [S EXCEPT !.camera = r.camera, !.freeCamera = r.freeCamera]
    ELSE LET l == update_camera_by_mode(S.leftCamera, S.leftFreeCamera,
                                        S.leftCameraMode, pos, rot,
                                        S.vehicleOriginalPos, deltaT, S.move)
             r == update_camera_by_mode(S.rightCamera, S.rightFreeCamera,
                                        S.rightCameraMode, pos, rot,
                                        S.vehicleOriginalPos, deltaT, S.move)
         IN [S EXCEPT !.leftCamera = l.camera, !.leftFreeCamera = l.freeCamera,
                      !.rightCamera = r.camera, !.rightFreeCamera = r.freeCamera]

\* "Update cameras based on mode" in the main loop: the State afterwards
UpdateCameras(S, pos, rot, deltaT) ==
    IF ~S.splitScreenMode
    THEN LET r == update_camera_by_mode(S.camera, S.freeCamera, S.cameraMode,
                                        pos, rot, S.vehicleOriginalPos, deltaT, S.move)
         IN [S EXCEPT !.camera = r.camera, !.freeCamera = r.freeCamera]
    ELSE LET l == update_camera_by_mode(S.leftCamera, S.leftFreeCamera,
                                        S.leftCameraMode, pos, rot,
                                        S.vehicleOriginalPos, deltaT, S.move)
             r == update_camera_by_mode(S.rightCamera, S.rightFreeCamera,
                                        S.rightCameraMode, pos, rot,
                                        S.vehicleOriginalPos, deltaT, NoMovement)
         IN [S EXCEPT !.leftCamera = l.camera, !.leftFreeCamera = l.freeCamera,
                      !.rightCamera = r.camera, !.rightFreeCamera = r.freeCamera]

\* one camera-cycle request on the rig stored in the fields camF/modeF/freeF
CycleCamera(S, camF, modeF, freeF) ==
    IF S[modeF] = "Free"
    THEN [S EXCEPT ![modeF] = "Follow", ![freeF] = S[camF]]
    ELSE IF S[modeF] = "Follow"
    THEN [S EXCEPT ![modeF] = "Ground"]
    ELSE [S EXCEPT ![modeF] = "Free", ![camF] = S[freeF]]

\* an F key that restarts the clock on every press
KeyFRestarts(S) ==
    IF ~S.animationActive
    THEN [S EXCEPT !.animationActive = TRUE, !.animationPaused = FALSE,
                   !.animationTime = 0]
    ELSE [S EXCEPT !.animationPaused = ~S.animationPaused, !.animationTime = 0]

\* the F key: start when not active, else toggle pause
KeyF(S) ==
    IF ~S.animationActive
    THEN [S EXCEPT !.animationActive = TRUE, !.animationPaused = FALSE,
                   !.animationTime = 0]
    ELSE [S EXCEPT !.animationPaused = ~S.animationPaused]

\* the R key: reset animation
KeyR(S) ==
    [S EXCEPT !.animationActive = FALSE, !.animationPaused = FALSE,
              !.animationTime = 0]

\* a V key that, leaving split screen, restores the main rig from the right
KeyVFromRight(S) ==
    IF ~S.splitScreenMode
    THEN [S EXCEPT !.splitScreenMode = TRUE,
                   !.leftCamera = S.camera,
                   !.leftCameraMode = S.cameraMode,
                   !.leftFreeCamera = S.freeCamera,
                   !.rightCamera = S.camera,
                   !.rightCameraMode = "Follow",
                   !.rightFreeCamera = S.camera]
    ELSE [S EXCEPT !.splitScreenMode = FALSE,
                   !.camera = S.rightCamera,
                   !.cameraMode = S.rightCameraMode,
                   !.freeCamera = S.rightFreeCamera]

\* the V key: split screen toggle
KeyV(S) ==
    IF ~S.splitScreenMode
    THEN [S EXCEPT !.splitScreenMode = TRUE,
                   !.leftCamera = S.camera,
                   !.leftCameraMode = S.cameraMode,
                   !.leftFreeCamera = S.freeCamera,
                   !.rightCamera = S.camera,
                   !.rightCameraMode = "Follow",
                   !.rightFreeCamera = S.camera]
    ELSE [S EXCEPT !.splitScreenMode = FALSE,
                   !.camera = S.leftCamera,
                   !.cameraMode = S.leftCameraMode,
                   !.freeCamera = S.leftFreeCamera]

\* a C key that cycles the left rig in split screen whatever Shift is
KeyCIgnoringShift(S, shiftPressed) ==
    IF ~S.splitScreenMode
    THEN CycleCamera(S, "camera", "cameraMode", "freeCamera")
    ELSE CycleCamera(S, "leftCamera", "leftCameraMode", "leftFreeCamera")

\* the C key: camera mode switching
KeyC(S, shiftPressed) ==
    IF ~S.splitScreenMode
    THEN CycleCamera(S, "camera", "cameraMode", "freeCamera")
    ELSE IF ~shiftPressed
    THEN CycleCamera(S, "leftCamera", "leftCameraMode", "leftFreeCamera")
    ELSE CycleCamera(S, "rightCamera", "rightCameraMode", "rightFreeCamera")

\* the movement and speed-modifier keys
KeyMovement(m, aKey, isPress) ==
    LET m1 == IF aKey = "W" THEN [m EXCEPT !.moveForward = isPress] ELSE m
        m2 == IF aKey = "S" THEN [m1 EXCEPT !.moveBackward = isPress] ELSE m1
        m3 == IF aKey = "A" THEN [m2 EXCEPT !.moveLeft = isPress] ELSE m2
        m4 == IF aKey = "D" THEN [m3 EXCEPT !.moveRight = isPress] ELSE m3
        m5 == IF aKey = "E" THEN [m4 EXCEPT !.moveUp = isPress] ELSE m4
        m6 == IF aKey = "Q" THEN [m5 EXCEPT !.moveDown = isPress] ELSE m5
        m7 == IF aKey \in {"LEFT_SHIFT", "RIGHT_SHIFT"}
              THEN [m6 EXCEPT !.speedBoost = isPress] ELSE m6
        m8 == IF aKey \in {"LEFT_CONTROL", "RIGHT_CONTROL"}
              THEN [m7 EXCEPT !.speedSlow = isPress] ELSE m7
    IN m8

\* a key callback without the F branch
glfw_callback_key_without_F(S, aKey, isPress, shiftPressed) ==
    LET S1 == [S EXCEPT !.move = KeyMovement(S.move, aKey, isPress)]
        S3 == IF aKey = "R" /\ isPress THEN KeyR(S1) ELSE S1
        S4 == IF aKey = "V" /\ isPress THEN KeyV(S3) ELSE S3
        S5 == IF aKey = "C" /\ isPress THEN KeyC(S4, shiftPressed) ELSE S4
    IN S5

\* glfw_callback_key_ for a press or release event; shiftPressed is what
\* glfwGetKey reports for the two shift keys during the callback
glfw_callback_key_(S, aKey, isPress, shiftPressed) ==
    LET S1 == [S EXCEPT !.move = KeyMovement(S.move, aKey, isPress)]
        S2 == IF aKey = "F" /\ isPress THEN KeyF(S1) ELSE S1
        S3 == IF aKey = "R" /\ isPress THEN KeyR(S2) ELSE S2
        S4 == IF aKey = "V" /\ isPress THEN KeyV(S3) ELSE S3
        S5 == IF aKey = "C" /\ isPress THEN KeyC(S4, shiftPressed) ELSE S4
    IN S5

\* the mode of the rig that receives pointer input
InputMode(S) == IF S.splitScreenMode THEN S.leftCameraMode ELSE S.cameraMode

\* glfw_callback_mouse_button_; cursor is what glfwGetCursorPos reports
glfw_callback_mouse_button_(S, aButton, aAction, cursor) ==
    IF InputMode(S) # "Free" THEN S
    ELSE IF aButton = "RIGHT" /\ aAction = "PRESS"
    THEN IF ~S.mouseActive
         THEN [S EXCEPT !.mouseActive = TRUE,
                        !.lastMouseX = cursor[1], !.lastMouseY = cursor[2]]
         ELSE [S EXCEPT !.mouseActive = FALSE]
    ELSE S

\* sensitivity = 0.002 rad per pixel
sensitivity == 2

\* glfw_callback_mouse_move_
glfw_callback_mouse_move_(S, aX, aY) ==
    IF ~S.mouseActive \/ InputMode(S) # "Free" THEN S
    ELSE LET deltaX == aX - S.lastMouseX
             deltaY == aY - S.lastMouseY
             S1 == [S EXCEPT !.lastMouseX = aX, !.lastMouseY = aY]
         IN IF ~S.splitScreenMode
            THEN [S1 EXCEPT !.camera =
                     rotate_pitch(rotate_yaw(S.camera, deltaX * sensitivity),
                                  (-deltaY) * sensitivity)]
            ELSE [S1 EXCEPT !.leftCamera =
                     rotate_pitch(rotate_yaw(S.leftCamera, deltaX * sensitivity),
                                  (-deltaY) * sensitivity)]

(***************************************************************************)
(* The program state.                                                      *)
(***************************************************************************)
VARIABLES
    state,                \* struct State of main.cpp
    particleSystem,       \* the ParticleSystem object
    uiSystem,             \* the two UIButton widgets of the UISystem
    window,               \* what GLFW reports: cursor, left button, shift keys
    lastTime,             \* main: time of the previous frame (ms)
    deltaTime,            \* main: deltaTime of the last frame (ms)
    current_vehicle_pos,  \* main: vehicle position evaluated in the last frame
    vehicle_rotation,     \* main: vehicle rotation evaluated in the last frame
    enginePos,            \* main: emitter position passed to the particle update
    emitting,             \* main: emitting flag passed to the particle update
    altitude,             \* main: altitude shown by the altitude label
    cycleStart,           \* history: per rig, the camera it had when its
                          \* current Free->Follow->Ground excursion began
    multTest,             \* vmlib-test/mult.cpp: the operands of the test case,
                          \* the section that ran and the product it computed
    emission,             \* history: the number of particles emit_particles
                          \* has activated so far, whether a call ever
                          \* took the "no free slots" break, and for how
                          \* long the pool has been draining
    lastEvent             \* history: what the last step was: "Frame", a frame
                          \* whose UI update ran the "Launch" or "Reset"
                          \* callback, a "KeyF", "KeyR" or "KeyC" press, any
                          \* other "Input" event, or "Start"

vars == <<state, particleSystem, uiSystem, window, lastTime, deltaTime,
          current_vehicle_pos, vehicle_rotation, enginePos, emitting, altitude,
          cycleStart, multTest, emission, lastEvent>>

\* the camera main() sets up: 100 m up, 200 m back
InitialCamera == move_backward(move_up(NewCamera, 1000), 2000)

\* struct State after the set-up code of main()
InitialState ==
    [camera |-> InitialCamera,
     cameraMode |-> "Free",
     freeCamera |-> InitialCamera,
     mouseActive |-> FALSE,
     lastMouseX |-> 0,
     lastMouseY |-> 0,
     move |-> NoMovement,
     animationActive |-> FALSE,
     animationPaused |-> FALSE,
     animationTime |-> 0,
     vehicleOriginalPos |-> vehicleOriginalPos,
     splitScreenMode |-> FALSE,
     leftCamera |-> InitialCamera,
     leftCameraMode |-> "Free",
     leftFreeCamera |-> InitialCamera,
     rightCamera |-> InitialCamera,
     rightCameraMode |-> "Follow",
     rightFreeCamera |-> InitialCamera]

\* the ParticleSystem main() builds: capacity, rate (particles per second)
\* and the lifetime bound used for the fade
InitialParticleSystem(maxParticles, rate) ==
    [particles_ |-> NewPool(maxParticles),
     maxParticles_ |-> maxParticles,
     emissionRate_ |-> rate,
     emissionAccumulator_ |-> 0,
     maxLifetime_ |-> 1500,
     vertexData_ |-> <<>>]

\* the Launch and Reset buttons main() adds
InitialUI ==
    [launchButton |-> BottomCenterButton(120, 40, -70, 60),
     resetButton  |-> BottomCenterButton(120, 40, 70, 60)]

\* cursor positions the pointer visits: outside the buttons, inside Launch,
\* inside Reset
CursorPoints == {<<100, 100>>, <<570, 640>>, <<710, 640>>}

\* emission rates (particles per second) the system is configured with
EmissionRates == {3, 200}

NoSnapshot == [set |-> FALSE, cam |-> NewCamera]

\* the test case of vmlib-test/mult.cpp before any of its sections ran
NotRun(a, k, v) == [section |-> "none", a |-> a, k |-> k, v |-> v, result |-> <<>>]

InitAll(maxParticles, rates, starts, tests) ==
    /\ state \in starts
    /\ multTest \in tests
    /\ \E rate \in rates :
          particleSystem = InitialParticleSystem(maxParticles, rate)
    /\ uiSystem = InitialUI
    /\ window = [cursor |-> <<100, 100>>, leftButton |-> FALSE,
                 leftShift |-> FALSE, rightShift |-> FALSE]
    /\ lastTime = 0
    /\ deltaTime = 0
    /\ current_vehicle_pos = vehicleOriginalPos
    /\ vehicle_rotation = kIdentity44f
    /\ enginePos = VSub(vehicleOriginalPos, <<0, 5, 0>>)
    /\ emitting = FALSE
    /\ altitude = 0
    /\ cycleStart = [main |-> NoSnapshot, left |-> NoSnapshot, right |-> NoSnapshot]
    /\ emission = [activated |-> 0, overrun |-> FALSE, draining |-> 0]
    /\ lastEvent = "Start"

\* the program with the test case holding the operands of mult.cpp
InitWith(maxParticles, rates, starts) ==
    InitAll(maxParticles, rates, starts,
            {NotRun(<<1000, 2000, 3000, 4000, 5000, 6000, 7000, 8000,
                      9000, 10000, 11000, 12000, 13000, 14000, 15000, 16000>>,
                    2000, <<1000, 2000, 3000, 4000>>)})

Init == InitWith(MaxParticles, EmissionRates, {InitialState})

(***************************************************************************)
(* Actions.                                                                *)
(***************************************************************************)
\* the frame steps the model draws deltaTime from
DtChoices == {k * DtStepMs : k \in 0 .. MaxDtSteps}

\* a camera update that evaluates the pose again, from the clock as the UI
\* update left it
CameraPoseReevaluated(S, pose) ==
    EvaluatePose(S.animationActive, S.animationTime, S.vehicleOriginalPos)

\* the pose the camera update is given: current_vehicle_pos and
\* vehicle_rotation as evaluated after the tick; S is the State after the UI
\* update
CameraPose(S, pose) == pose

\* the number of random outcomes a frame's particle update can consume: one
\* per particle it wants to emit, at most one per slot
DrawsWanted(S, PS, dt) ==
    IF S.animationActive /\ ~S.animationPaused
    THEN Min(ParticlesToEmit(PS.emissionAccumulator_, PS.emissionRate_, dt),
             PS.maxParticles_)
    ELSE 0

\* the sequences of random outcomes of a frame; a frame that emits nothing
\* consumes none, and the one sequence offered is never read
DrawSeqs(n) == [1 .. Max(1, n) -> IF n = 0 THEN {CHOOSE d \in Draws : TRUE} ELSE Draws]

\* history of emissions: a call of ParticleSystem::update activates as many
\* particles as it turns slots from inactive (after the aging pass) to
\* active; it overruns when it wanted to emit more than that.  draining is
\* the summed deltaTime (up to maxLifetime_) of the updates that were not
\* emitting and found an active particle, since the last emitting update
EmissionHistory(h, PS, after, dt, emit) ==
    LET activatedNow ==
            ActiveCount(after)
              - ActiveCount(AgeAll(PS.particles_, dt, PS.maxLifetime_))
        wanted == IF emit
                  THEN ParticlesToEmit(PS.emissionAccumulator_, PS.emissionRate_, dt)
                  ELSE 0
    IN [activated |-> h.activated + activatedNow,
        overrun |-> h.overrun \/ wanted > activatedNow,
        draining |-> IF emit THEN 0
                     ELSE IF ActiveCount(PS.particles_) = 0 THEN h.draining
                     ELSE Min(h.draining + dt, PS.maxLifetime_)]

\* an emitting flag that ignores the pause
EmittingWhilePaused(S) == S.animationActive

\* bool emitting = state.animationActive && !state.animationPaused
Emitting(S) == S.animationActive /\ ~S.animationPaused

\* One iteration of the main loop after glfwPollEvents, in program order:
\* tick, pose, particle update, altitude, UI update (the buttons' callbacks),
\* camera update, rendering (which rebuilds the particle draw list).  ds are
\* the random outcomes the particle update consumes.
MainLoopIteration(dt, ds) ==
    /\ \E S1 \in {TickAnimation(state, dt)} :
       \E pose \in {EvaluatePose(S1.animationActive, S1.animationTime,
                                 S1.vehicleOriginalPos)} :
       \E ePos \in {VSub(pose.pos, <<0, 5, 0>>)} :
       \E emit \in {Emitting(S1)} :
       \E pu \in {ParticleUpdate(particleSystem.particles_,
                                 particleSystem.emissionAccumulator_,
                                 particleSystem.emissionRate_,
                                 particleSystem.maxLifetime_,
                                 dt, ePos, emit, ds)} :
       \E lb \in {UIButtonUpdate(uiSystem.launchButton, window.cursor[1],
                                 window.cursor[2], window.leftButton)} :
       \E S2 \in {IF lb.clicked THEN LaunchCallback(S1) ELSE S1} :
       \E rb \in {UIButtonUpdate(uiSystem.resetButton, window.cursor[1],
                                 window.cursor[2], window.leftButton)} :
       \E S3 \in {IF rb.clicked THEN ResetCallback(S2) ELSE S2} :
       \E cp \in {CameraPose(S3, pose)} :
       \E em \in {EmissionHistory(emission, particleSystem, pu.particles, dt, emit)} :
          /\ state' = UpdateCameras(S3, cp.pos, cp.rot, dt)
          /\ particleSystem' = update_gpu_data(
                                   [particleSystem EXCEPT
                                       !.particles_ = pu.particles,
                                       !.emissionAccumulator_ = pu.accumulator])
          /\ uiSystem' = [launchButton |-> lb.button, resetButton |-> rb.button]
          /\ current_vehicle_pos' = pose.pos
          /\ vehicle_rotation' = pose.rot
          /\ enginePos' = ePos
          /\ emitting' = emit
          /\ altitude' = pose.pos[2] - S1.vehicleOriginalPos[2]
          /\ emission' = em
          /\ lastEvent' = IF rb.clicked THEN "Reset"
                          ELSE IF lb.clicked THEN "Launch" ELSE "Frame"
    /\ lastTime' = lastTime + dt
    /\ deltaTime' = dt
    /\ UNCHANGED <<window, cycleStart, multTest>>

\* a frame of deltaTime dt, while the wall clock is within the model's horizon
Frame(dt, ds) ==
    /\ lastTime + dt <= MaxWallTime
    /\ MainLoopIteration(dt, ds)

\* the rig a C key press addresses
CycledRig(S, shiftPressed) ==
    IF ~S.splitScreenMode THEN "main"
    ELSE IF ~shiftPressed THEN "left" ELSE "right"

RigCamera(S, rig) ==
    IF rig = "main" THEN S.camera
    ELSE IF rig = "left" THEN S.leftCamera ELSE S.rightCamera

RigMode(S, rig) ==
    IF rig = "main" THEN S.cameraMode
    ELSE IF rig = "left" THEN S.leftCameraMode ELSE S.rightCameraMode

RigFreeCamera(S, rig) ==
    IF rig = "main" THEN S.freeCamera
    ELSE IF rig = "left" THEN S.leftFreeCamera ELSE S.rightFreeCamera

\* history of camera-cycle excursions: a snapshot is taken when a rig leaves
\* Free by a cycle request and dropped when the rig is cycled back to Free
\* or when the split-screen toggle re-assigns the rigs
CycleHistory(h, S, aKey, isPress, shiftPressed) ==
    IF aKey = "V" /\ isPress
    THEN [main |-> NoSnapshot, left |-> NoSnapshot, right |-> NoSnapshot]
    ELSE IF aKey = "C" /\ isPress
    THEN LET rig == CycledRig(S, shiftPressed)
         IN IF RigMode(S, rig) = "Free"
            THEN [h EXCEPT ![rig] = [set |-> TRUE, cam |-> RigCamera(S, rig)]]
            ELSE IF RigMode(S, rig) = "Ground"
            THEN [h EXCEPT ![rig] = NoSnapshot]
            ELSE h
    ELSE h

\* the keys the key callback distinguishes
Keys == {"W", "S", "A", "D", "E", "Q", "LEFT_SHIFT", "RIGHT_SHIFT",
         "LEFT_CONTROL", "RIGHT_CONTROL", "F", "R", "V", "C"}

\* a key press or release event delivered by glfwPollEvents
KeyEvent(aKey, isPress) ==
    LET w == [window EXCEPT
                 !.leftShift = IF aKey = "LEFT_SHIFT" THEN isPress ELSE @,
                 !.rightShift = IF aKey = "RIGHT_SHIFT" THEN isPress ELSE @]
        shiftPressed == w.leftShift \/ w.rightShift
    IN /\ window' = w
       /\ state' = glfw_callback_key_(state, aKey, isPress, shiftPressed)
       /\ cycleStart' = CycleHistory(cycleStart, state, aKey, isPress, shiftPressed)
       /\ lastEvent' = IF isPress /\ aKey \in {"F", "R", "C"}
                       THEN "Key" \o aKey ELSE "Input"
       /\ UNCHANGED <<particleSystem, uiSystem, lastTime, deltaTime,
                      current_vehicle_pos, vehicle_rotation, enginePos,
                      emitting, altitude, emission, multTest>>

\* a mouse button event
MouseButtonEvent(aButton, aAction) ==
    /\ aButton = "LEFT" => (aAction = "PRESS") = ~window.leftButton
    /\ window' = [window EXCEPT
                     !.leftButton = IF aButton = "LEFT" THEN aAction = "PRESS" ELSE @]
    /\ state' = glfw_callback_mouse_button_(state, aButton, aAction, window.cursor)
    /\ lastEvent' = "Input"
    /\ UNCHANGED <<particleSystem, uiSystem, lastTime, deltaTime,
                   current_vehicle_pos, vehicle_rotation, enginePos,
                   emitting, altitude, cycleStart, emission, multTest>>

\* largest |yaw| (mrad) the model lets the pointer accumulate
MaxYaw == 1000

\* a cursor position event that leaves |yaw| within yawBound
CursorPosWithin(pt, yawBound) ==
    /\ pt # window.cursor
    /\ LET S1 == glfw_callback_mouse_move_(state, pt[1], pt[2])
       IN /\ S1.camera # state.camera => Abs(S1.camera.yaw) <= yawBound
          /\ S1.leftCamera # state.leftCamera => Abs(S1.leftCamera.yaw) <= yawBound
          /\ state' = S1
    /\ window' = [window EXCEPT !.cursor = pt]
    /\ lastEvent' = "Input"
    /\ UNCHANGED <<particleSystem, uiSystem, lastTime, deltaTime,
                   current_vehicle_pos, vehicle_rotation, enginePos,
                   emitting, altitude, cycleStart, emission, multTest>>

\* a cursor position event
CursorPosEvent(pt) == CursorPosWithin(pt, MaxYaw)

\* the frames of one poll-to-poll iteration, deltaTime drawn from dts
FrameStep(dts) ==
    \E dt \in dts :
       \E ds \in DrawSeqs(DrawsWanted(state, particleSystem, dt)) : Frame(dt, ds)

Next ==
    \/ FrameStep(DtChoices)
    \/ \E k \in Keys, p \in BOOLEAN : KeyEvent(k, p)
    \/ \E b \in {"LEFT", "RIGHT"}, a \in {"PRESS", "RELEASE"} : MouseButtonEvent(b, a)
    \/ \E pt \in CursorPoints : CursorPosEvent(pt)

Spec == Init /\ [][Next]_vars

(***************************************************************************)
(* The particle pool under the clock keys: frames with every deltaTime,    *)
(* the F and R keys, a pool of MaxParticles slots.                         *)
(***************************************************************************)
InitParticles == InitWith(MaxParticles, EmissionRates, {InitialState})

NextParticles ==
    \/ FrameStep(DtChoices)
    \/ \E k \in {"F", "R"} : KeyEvent(k, TRUE)

SpecParticles == InitParticles /\ [][NextParticles]_vars

(***************************************************************************)
(* The animation clock: frames, the F and R keys, and the pointer clicking *)
(* the Launch and Reset buttons.                                           *)
(***************************************************************************)
InitClock == InitWith(0, {200}, {InitialState})

NextClock ==
    \/ FrameStep(DtChoices)
    \/ \E k \in {"F", "R"} : KeyEvent(k, TRUE)
    \/ \E a \in {"PRESS", "RELEASE"} : MouseButtonEvent("LEFT", a)
    \/ \E pt \in CursorPoints : CursorPosEvent(pt)

SpecClock == InitClock /\ [][NextClock]_vars

(***************************************************************************)
(* The pose of a frame and its consumers: the rigs are in Follow, or in    *)
(* split screen with Ground on the left and Follow on the right; the F key *)
(* and the clicks on Launch and Reset drive the clock.                     *)
(***************************************************************************)
PoseStarts ==
    {KeyC(InitialState, FALSE),
     KeyV(KeyC(KeyC(InitialState, FALSE), FALSE))}

InitPose == InitWith(0, {200}, PoseStarts)

NextPose ==
    \/ FrameStep(DtChoices)
    \/ KeyEvent("F", TRUE)
    \/ \E a \in {"PRESS", "RELEASE"} : MouseButtonEvent("LEFT", a)
    \/ \E pt \in CursorPoints : CursorPosEvent(pt)

SpecPose == InitPose /\ [][NextPose]_vars

(***************************************************************************)
(* Camera cycling: the animation runs, the W and left Shift keys are       *)
(* pressed and released, C cycles a rig; single screen and split screen.   *)
(***************************************************************************)
\* the state after the pointer, with look active, came from (570, 400) to
\* where the window reports it
LookedAround(S) ==
    glfw_callback_mouse_move_(
        glfw_callback_mouse_button_(S, "RIGHT", "PRESS", <<570, 400>>), 100, 100)

CycleStarts ==
    {KeyF(InitialState),
     KeyF(LookedAround(InitialState)),
     KeyV(KeyF(LookedAround(InitialState)))}

\* frames of the longest deltaTime, and frames in which no time passes
LongFrames == {0, MaxDtSteps * DtStepMs}

InitCycle == InitWith(0, {200}, CycleStarts)

NextCycle ==
    \/ FrameStep(LongFrames)
    \/ \E k \in {"W", "LEFT_SHIFT"}, p \in BOOLEAN : KeyEvent(k, p)
    \/ KeyEvent("C", TRUE)

SpecCycle == InitCycle /\ [][NextCycle]_vars

(***************************************************************************)
(* Split screen: movement keys, modifiers and the pointer drive the left   *)
(* rig while the right rig is in Follow, Ground or Free.                   *)
(***************************************************************************)
SplitStarts ==
    LET S0 == KeyV(KeyF(InitialState))
        S1 == KeyC(S0, TRUE)
        S2 == KeyC(S1, TRUE)
    IN {S0, S1, S2}

\* cursor positions of a horizontal sweep
SweepPoints == {<<100, 100>>, <<570, 100>>}

InitSplit == InitWith(0, {200}, SplitStarts)

NextSplit ==
    \/ FrameStep({MaxDtSteps * DtStepMs})
    \/ \E k \in {"W", "LEFT_SHIFT"}, p \in BOOLEAN : KeyEvent(k, p)
    \/ MouseButtonEvent("RIGHT", "PRESS")
    \/ \E pt \in SweepPoints : CursorPosEvent(pt)

SpecSplit == InitSplit /\ [][NextSplit]_vars

(***************************************************************************)
(* Emission at a constant rate: the clock runs from the start and every    *)
(* frame has the same deltaTime, so every update emits.                    *)
(***************************************************************************)
\* the pool capacity of the emission runs (main builds 2000 slots)
EmitCapacity == 22

\* the emission runs: rate (particles per second) and the fixed frame step
\* (ms).  0.048, 0.6 and 20 particles per update.
EmitRuns == {<<3, 16>>, <<6, 100>>, <<200, 100>>}

EmitRates == {run[1] : run \in EmitRuns}

EmitSteps == {run[2] : run \in EmitRuns}

\* the longest sequence of distinct random outcomes offered to one call;
\* EmitLoop reads it cyclically
MaxDrawPeriod == 1

InitEmit == InitWith(EmitCapacity, EmitRates, {KeyF(InitialState)})

\* a frame of a run: its deltaTime is the one of the frames before it
FixedStepFrame(dt) ==
    /\ <<particleSystem.emissionRate_, dt>> \in EmitRuns
    /\ lastTime = 0 \/ deltaTime = dt
    /\ \E ds \in DrawSeqs(Min(DrawsWanted(state, particleSystem, dt), MaxDrawPeriod)) :
          Frame(dt, ds)

NextEmit == \E dt \in EmitSteps : FixedStepFrame(dt)

SpecEmit == InitEmit /\ [][NextEmit]_vars

(***************************************************************************)
(* The flight: the clock runs past the acceleration phase in short and     *)
(* long frames, and in frames in which no time passes; F pauses it.        *)
(***************************************************************************)
\* wall-clock time (ms) after which no further frame of a flight is modelled
MaxFlightTime == 4000

\* the frame steps (ms) of a flight
FlightSteps == {0, 100, 1000}

InitFlight == InitWith(0, {200}, {KeyF(InitialState)})

FlightFrame(dt) ==
    /\ lastTime + dt <= MaxFlightTime
    /\ \E ds \in DrawSeqs(0) : MainLoopIteration(dt, ds)

NextFlight ==
    \/ \E dt \in FlightSteps : FlightFrame(dt)
    \/ KeyEvent("F", TRUE)

SpecFlight == InitFlight /\ [][NextFlight]_vars

(***************************************************************************)
(* The saved free cameras: the animation runs; C and Shift+C cycle the     *)
(* rigs and V toggles the split screen between the frames.                 *)
(***************************************************************************)
InitSlots == InitWith(0, {200}, {KeyF(InitialState)})

NextSlots ==
    \/ FrameStep({MaxDtSteps * DtStepMs})
    \/ \E k \in {"C", "V"} : KeyEvent(k, TRUE)
    \/ \E p \in BOOLEAN : KeyEvent("LEFT_SHIFT", p)

SpecSlots == InitSlots /\ [][NextSlots]_vars

(***************************************************************************)
(* vmlib-test/mult.cpp: each section runs on a fresh test case; the        *)
(* operands range over matrices, scalars and vectors in 1/1000.            *)
(***************************************************************************)
\* the matrix a of the test case, and matrices with zero, negative and
\* fractional entries and rotations the program builds
TestMatrices ==
    { <<1000, 2000, 3000, 4000, 5000, 6000, 7000, 8000,
        9000, 10000, 11000, 12000, 13000, 14000, 15000, 16000>>,
      kIdentity44f,
      make_rotation_y(500),
      RotationFromVelocity(TrajectoryVelocity(2000)),
      <<-1500, 250, 0, 7, -3, 0, 999, -12000, 1, -1, 333, 0, 0, 4500, -250, 1000>>,
      <<0, 0, 0, 0, 0, 0, 0, 0, 0, 0, 0, 0, 0, 0, 0, 0>> }

\* the factor 2 of the test case, and other factors
TestScalars == {2000, 1000, 0, 500, -3000}

\* the vector v of the test case, and other vectors
TestVectors ==
    { <<1000, 2000, 3000, 4000>>, <<1000, 1000, 1000, 1000>>,
      <<-750, 0, 12345, 1000>>, <<0, 0, 0, 0>> }

InitMult ==
    InitAll(0, {200}, {InitialState},
            {NotRun(a, k, v) : a \in TestMatrices, k \in TestScalars, v \in TestVectors})

\* SECTION "Identity multiplication": result = kIdentity44f * a
IdentityMultiplication ==
    /\ multTest.section = "none"
    /\ multTest' = [multTest EXCEPT !.section = "Identity multiplication",
                                     !.result = MatMul(kIdentity44f, multTest.a)]
    /\ UNCHANGED <<state, particleSystem, uiSystem, window, lastTime, deltaTime,
                   current_vehicle_pos, vehicle_rotation, enginePos, emitting,
                   altitude, cycleStart, emission, lastEvent>>

\* SECTION "Known multiplication": result = a * b, b the scalar matrix
KnownMultiplication ==
    /\ multTest.section = "none"
    /\ multTest' = [multTest EXCEPT !.section = "Known multiplication",
                                     !.result = MatMul(multTest.a, ScalarMatrix(multTest.k))]
    /\ UNCHANGED <<state, particleSystem, uiSystem, window, lastTime, deltaTime,
                   current_vehicle_pos, vehicle_rotation, enginePos, emitting,
                   altitude, cycleStart, emission, lastEvent>>

\* SECTION "Identity transformation": result = kIdentity44f * v
IdentityTransformation ==
    /\ multTest.section = "none"
    /\ multTest' = [multTest EXCEPT !.section = "Identity transformation",
                                     !.result = MatVec(kIdentity44f, multTest.v)]
    /\ UNCHANGED <<state, particleSystem, uiSystem, window, lastTime, deltaTime,
                   current_vehicle_pos, vehicle_rotation, enginePos, emitting,
                   altitude, cycleStart, emission, lastEvent>>

NextMult ==
    \/ IdentityMultiplication
    \/ KnownMultiplication
    \/ IdentityTransformation

SpecMult == InitMult /\ [][NextMult]_vars

(***************************************************************************)
(* Looking around across camera excursions: the right mouse button toggles *)
(* look, the pointer moves, C cycles the main rig, frames pass.            *)
(***************************************************************************)
InitLook == InitWith(0, {200}, {KeyF(InitialState)})

NextLook ==
    \/ FrameStep({MaxDtSteps * DtStepMs})
    \/ KeyEvent("C", TRUE)
    \/ MouseButtonEvent("RIGHT", "PRESS")
    \/ \E pt \in SweepPoints : CursorPosEvent(pt)

SpecLook == InitLook /\ [][NextLook]_vars

(***************************************************************************)
(* Looking around with large pointer motions, single screen and split      *)
(* screen: the right mouse button toggles look, the pointer jumps between  *)
(* far-apart positions (the cursor is disabled, its position unbounded).   *)
(***************************************************************************)
\* largest |yaw| (mrad) the pointer accumulates in the look runs
MaxLookYaw == 4000

\* pointer positions 900 x 800, 1900 x 1400 and 1000 x 600 pixels apart
LookPoints == {<<100, 100>>, <<1000, 900>>, <<-900, -500>>}

InitPitch == InitWith(0, {200}, {InitialState, KeyV(InitialState)})

NextPitch ==
    \/ MouseButtonEvent("RIGHT", "PRESS")
    \/ \E pt \in LookPoints : CursorPosWithin(pt, MaxLookYaw)

SpecPitch == InitPitch /\ [][NextPitch]_vars

(***************************************************************************)
(* The exhaust under the clock: half-second frames, the F key, and the     *)
(* pointer clicking the Launch and Reset buttons, with a pool of           *)
(* MaxParticles slots.                                                     *)
(***************************************************************************)
InitExhaust == InitWith(MaxParticles, {200}, {InitialState})

NextExhaust ==
    \/ FrameStep({DtStepMs})
    \/ KeyEvent("F", TRUE)
    \/ \E a \in {"PRESS", "RELEASE"} : MouseButtonEvent("LEFT", a)
    \/ \E pt \in CursorPoints : CursorPosEvent(pt)

SpecExhaust == InitExhaust /\ [][NextExhaust]_vars

(***************************************************************************)
(* Properties.                                                             *)
(***************************************************************************)
\* the values of lastEvent a main-loop iteration leaves
FrameEvents == {"Frame", "Launch", "Reset"}

\* the clock fields of a State
Clock(S) == <<S.animationActive, S.animationPaused, S.animationTime>>

\* the clock is Running with no time elapsed
RunningFromZero(S) == S.animationActive /\ ~S.animationPaused /\ S.animationTime = 0

\* C1: after any sequence of ParticleSystem::update calls the pool still has
\* exactly maxParticles_ slots, and the number of active slots is at most
\* maxParticles_.
C1_PoolBounded ==
    /\ Len(particleSystem.particles_) = particleSystem.maxParticles_
    /\ ActiveCount(particleSystem.particles_) <= particleSystem.maxParticles_

\* an emitting update has just filled every slot of a non-empty pool
C1_Witness ==
    /\ lastEvent = "Frame" /\ emitting /\ deltaTime > 0
    /\ particleSystem.maxParticles_ > 0
    /\ ActiveCount(particleSystem.particles_) = particleSystem.maxParticles_
    /\ \E i \in 1 .. Len(particleSystem.particles_) :
          particleSystem.particles_[i].position = enginePos

\* C2: a rig that leaves Free by a cycle request and is cycled on through
\* Follow and Ground comes back to Free with exactly the camera (position,
\* yaw, pitch, basis) it had before the first request, whatever frames, key
\* states and pose changes came in between.
C2_CycleRoundTrip ==
    [][\A rig \in {"main", "left", "right"} :
          (cycleStart[rig].set /\ ~cycleStart'[rig].set) =>
              /\ RigMode(state', rig) = "Free"
              /\ RigCamera(state', rig) = cycleStart[rig].cam]_vars

\* the third request has just brought the main rig back to Free, W is held,
\* the vehicle has climbed, and the rig is away from where main() put it
C2_Witness ==
    /\ lastEvent = "KeyC" /\ ~state.splitScreenMode /\ state.cameraMode = "Free"
    /\ ~cycleStart.main.set
    /\ state.move.moveForward /\ altitude > 0
    /\ state.camera.position # InitialCamera.position
    /\ state.camera.yaw # 0

\* C3: after reset(), by the R key or by the Reset button, from any clock
\* state, elapsed is 0 and the clock is not active.
C3_ResetYieldsIdle ==
    lastEvent \in {"KeyR", "Reset"} =>
        state.animationTime = 0 /\ ~state.animationActive

\* the Reset button was clicked in a frame that found the clock Paused with
\* time elapsed
C3_Witness ==
    /\ lastEvent = "Reset"
    /\ ~emitting /\ current_vehicle_pos # vehicleOriginalPos

\* C4: the per-frame tick leaves elapsed unchanged when the clock is not
\* active or is paused, adds exactly deltaTime when it is active and not
\* paused, and never changes the active and paused flags.
C4_TickSemantics ==
    [][lastEvent' = "Frame" =>
          /\ state'.animationActive = state.animationActive
          /\ state'.animationPaused = state.animationPaused
          /\ state'.animationTime =
                IF state.animationActive /\ ~state.animationPaused
                THEN state.animationTime + deltaTime'
                ELSE state.animationTime]_vars

\* a frame of positive length has ticked a Paused clock with time elapsed
C4_Witness ==
    /\ lastEvent = "Frame" /\ deltaTime > 0
    /\ state.animationActive /\ state.animationPaused
    /\ state.animationTime > 0

\* C5: start() - the Launch button from any clock state, the F key when the
\* clock is not active - leaves the clock Running with elapsed 0.
C5_StartYieldsRunning ==
    [][(lastEvent' = "Launch" \/ (lastEvent' = "KeyF" /\ ~state.animationActive))
          => RunningFromZero(state')]_vars

\* the Launch button was clicked in a frame that found the clock Paused with
\* time elapsed
C5_Witness ==
    /\ lastEvent = "Launch"
    /\ ~emitting /\ current_vehicle_pos # vehicleOriginalPos
    /\ RunningFromZero(state)

\* C6 as stated: the pause toggle (the F key) switches between Running and
\* Paused without changing elapsed, and changes nothing when the clock is
\* Idle.
C6_AsStated ==
    [][lastEvent' = "KeyF" =>
          IF state.animationActive
          THEN /\ state'.animationActive
               /\ state'.animationPaused = ~state.animationPaused
               /\ state'.animationTime = state.animationTime
          ELSE Clock(state') = Clock(state)]_vars

\* C6: the pause toggle (the F key) switches between Running and Paused
\* without changing elapsed; when the clock is Idle the same key starts it:
\* Running with elapsed 0.
C6_PauseToggle ==
    [][lastEvent' = "KeyF" =>
          IF state.animationActive
          THEN /\ state'.animationActive
               /\ state'.animationPaused = ~state.animationPaused
               /\ state'.animationTime = state.animationTime
          ELSE RunningFromZero(state')]_vars

\* the F key has just paused a clock with time elapsed
C6_Witness ==
    /\ lastEvent = "KeyF"
    /\ state.animationActive /\ state.animationPaused
    /\ state.animationTime > 0

\* C7 as stated: across every step that starts and ends with the clock
\* active, elapsed does not decrease.
C7_AsStated ==
    [][(state.animationActive /\ state'.animationActive) =>
          state'.animationTime >= state.animationTime]_vars

\* C7: across every step that starts and ends with the clock active and is
\* not a frame in which the Launch button restarts the clock, elapsed does
\* not decrease.
C7_MonotonicUnlessLaunched ==
    [][(state.animationActive /\ state'.animationActive /\ lastEvent' # "Launch") =>
          state'.animationTime >= state.animationTime]_vars

\* a frame has just advanced a clock that had already advanced before
C7_Witness ==
    /\ lastEvent = "Frame" /\ deltaTime > 0
    /\ state.animationActive /\ ~state.animationPaused
    /\ state.animationTime > deltaTime

\* C8: in split-screen mode no key, modifier or pointer event changes the
\* right rig's camera; a frame leaves it unchanged while the rig is in Free,
\* and in Follow and Ground sets it from the frame's pose alone.
C8_RightRigIgnoresInput ==
    [][(state.splitScreenMode /\ state'.splitScreenMode
            /\ state'.rightCameraMode = state.rightCameraMode) =>
          /\ lastEvent' \notin FrameEvents => state'.rightCamera = state.rightCamera
          /\ state.rightCameraMode = "Free" => state'.rightCamera = state.rightCamera
          /\ (lastEvent' \in FrameEvents /\ state.rightCameraMode = "Follow") =>
                state'.rightCamera = FollowCamera(state.rightCamera,
                                                  current_vehicle_pos',
                                                  vehicle_rotation')
          /\ (lastEvent' \in FrameEvents /\ state.rightCameraMode = "Ground") =>
                state'.rightCamera = GroundCamera(state.rightCamera,
                                                  current_vehicle_pos',
                                                  state.vehicleOriginalPos)]_vars

\* a frame of positive length has run with W held and look active while the
\* right rig is in Free: the left rig has turned and moved, the right has not
C8_Witness ==
    /\ state.splitScreenMode /\ state.rightCameraMode = "Free"
    /\ lastEvent = "Frame" /\ deltaTime > 0
    /\ state.move.moveForward /\ state.mouseActive
    /\ state.leftCameraMode = "Free"
    /\ state.leftCamera.yaw # state.rightCamera.yaw
    /\ state.leftCamera.position # state.rightCamera.position

\* C9: in a frame the pose is evaluated once, from the clock as the tick left
\* it; the emitter position, the altitude and every rig in Follow or Ground
\* use that pose, also when the Launch or Reset callback changes the clock
\* during the UI update.
C9_OnePosePerFrame ==
    [][lastEvent' \in FrameEvents =>
          LET S1 == TickAnimation(state, deltaTime')
              pose == EvaluatePose(S1.animationActive, S1.animationTime,
                                   S1.vehicleOriginalPos)
              Posed(c, mode) ==
                  IF mode = "Follow" THEN FollowCamera(c, pose.pos, pose.rot)
                  ELSE GroundCamera(c, pose.pos, S1.vehicleOriginalPos)
          IN /\ current_vehicle_pos' = pose.pos
             /\ vehicle_rotation' = pose.rot
             /\ enginePos' = VSub(pose.pos, <<0, 5, 0>>)
             /\ altitude' = pose.pos[2] - S1.vehicleOriginalPos[2]
             /\ (~state.splitScreenMode /\ state.cameraMode # "Free") =>
                   state'.camera = Posed(state.camera, state.cameraMode)
             /\ (state.splitScreenMode /\ state.leftCameraMode # "Free") =>
                   state'.leftCamera = Posed(state.leftCamera, state.leftCameraMode)
             /\ (state.splitScreenMode /\ state.rightCameraMode # "Free") =>
                   state'.rightCamera = Posed(state.rightCamera,
                                              state.rightCameraMode)]_vars

\* the Reset button was clicked in a frame that found the vehicle in flight
\* while the main rig follows it
C9_Witness ==
    /\ lastEvent = "Reset"
    /\ ~state.splitScreenMode /\ state.cameraMode = "Follow"
    /\ altitude > 0
    /\ state.animationTime = 0

\* C10: when every slot is active at emit time the emission is dropped: the
\* pool after the update is the aged pool, no active slot is overwritten and
\* the pool does not grow.
C10_FullPoolDropsEmission ==
    [][LET aged == AgeAll(particleSystem.particles_, deltaTime',
                          particleSystem.maxLifetime_)
       IN (lastEvent' \in FrameEvents /\ FreeSlots(aged) = 0) =>
             particleSystem'.particles_ = aged]_vars

\* an emitting update of positive length that wanted to emit has found every
\* slot active: all slots are still active and none is freshly emitted
C10_Witness ==
    /\ lastEvent = "Frame" /\ emitting /\ deltaTime > 0
    /\ particleSystem.emissionRate_ * deltaTime >= MsPerSecond
    /\ Len(particleSystem.particles_) > 0
    /\ \A i \in 1 .. Len(particleSystem.particles_) :
          /\ particleSystem.particles_[i].active
          /\ particleSystem.particles_[i].color[4] < DirScale

\* C11: emitting at a constant rate R with a fixed step dt from an empty
\* accumulator, as long as no call ran out of free slots, the particles
\* activated so far plus the accumulator account for exactly R * N * dt: the
\* accumulator is the fractional remainder (at least 0, below 1 particle), so
\* the number activated is within 1 of R * N * dt.
C11_RateAccumulation ==
    ~emission.overrun =>
        LET owed == particleSystem.emissionRate_ * state.animationTime
            acc == particleSystem.emissionAccumulator_
        IN /\ state.animationTime = lastTime
           /\ emission.activated * MsPerSecond + acc = owed
           /\ 0 <= acc /\ acc < MsPerSecond
           /\ Abs(emission.activated * MsPerSecond - owed) <= MsPerSecond

\* several updates have emitted, none overran, and a fraction is carried
C11_Witness ==
    /\ ~emission.overrun
    /\ emission.activated >= 4
    /\ particleSystem.emissionAccumulator_ > 0
    /\ lastTime >= 5 * deltaTime
    /\ deltaTime > 0

\* C12: a frame that calls update(0.1 s, pos, emitting = true) at 200
\* particles per second on a pool of at least 20 slots with no active
\* particle and an empty accumulator leaves exactly the slots 0 .. 19 active
\* and the accumulator at 0.
C12_FirstUpdateActivatesTwenty ==
    [][ ( /\ ActiveCount(particleSystem.particles_) = 0
          /\ particleSystem.emissionAccumulator_ = 0
          /\ particleSystem.emissionRate_ = 200
          /\ Len(particleSystem.particles_) >= 20
          /\ lastTime' = lastTime + 100
          /\ deltaTime' = 100
          /\ emitting' )
        => ( /\ \A i \in 1 .. Len(particleSystem.particles_)' :
                   particleSystem.particles_'[i].active <=> i <= 20
             /\ ActiveCount(particleSystem.particles_') = 20
             /\ particleSystem.emissionAccumulator_' = 0 ) ]_vars

\* the first update of the run at 200 per second has activated 20 particles
C12_Witness ==
    /\ particleSystem.emissionRate_ = 200
    /\ lastTime = 100
    /\ emitting
    /\ emission.activated = 20
    /\ ActiveCount(particleSystem.particles_) = 20

\* the position a frame evaluates for the running or paused vehicle at the
\* end of the acceleration phase
ThresholdPosition ==
    EvaluatePose(TRUE, accelerationPhase, state.vehicleOriginalPos).pos

\* C13: in every frame that evaluates the pose at an elapsed time at or
\* beyond the end of the acceleration phase (3.0 s), the vehicle position is
\* the position of the threshold time, and it is the same in the frame after.
C13_PositionFrozenAfterThreshold ==
    [][ ( /\ lastEvent' = "Frame"
          /\ state'.animationActive
          /\ state'.animationTime >= accelerationPhase )
        => ( /\ current_vehicle_pos' = ThresholdPosition
             /\ ( lastEvent = "Frame" /\ state.animationActive
                     /\ state.animationTime >= accelerationPhase
                   => current_vehicle_pos' = current_vehicle_pos ) ) ]_vars

\* a frame has evaluated the pose beyond the threshold time, after one at it
C13_Witness ==
    /\ lastEvent = "Frame"
    /\ state.animationActive
    /\ state.animationTime > accelerationPhase
    /\ deltaTime > 0
    /\ current_vehicle_pos = ThresholdPosition

\* C14: the frame that evaluates the pose at elapsed = 3.0 s takes the
\* constant-rate branch with u = 1, clamps the progress to p = 1, and places
\* the vehicle 120 m above, 300 m forward of (z - 300 m) and 45 m beside the
\* launch origin.
C14_PoseAtEndOfAcceleration ==
    ( /\ lastEvent = "Frame"
      /\ state.animationActive
      /\ state.animationTime = 3000 )
    => ( /\ ~(state.animationTime < accelerationPhase)
         /\ normalizedT(state.animationTime) = ProgScale
         /\ tProgress(state.animationTime) = ProgScale
         /\ VSub(current_vehicle_pos, state.vehicleOriginalPos) = <<450, 1200, -3000>>
         /\ altitude = 1200 )

\* a frame has evaluated the pose at exactly 3.0 s
C14_Witness ==
    /\ lastEvent = "Frame"
    /\ state.animationActive
    /\ state.animationTime = 3000
    /\ deltaTime > 0
    /\ current_vehicle_pos # state.vehicleOriginalPos

\* C15 as stated: once elapsed > 0 the evaluated vehicle position has y >= 0.
C15_AsStated ==
    ( /\ lastEvent = "Frame"
      /\ state.animationActive
      /\ state.animationTime > 0 )
    => current_vehicle_pos[2] >= 0

\* C15: while the animation is active the evaluated vehicle position is never
\* below the launch origin (whose y is -0.8 m), its y does not decrease from
\* one frame to the next, and at elapsed = 0 it is the launch origin.
C15_ClimbFromOrigin ==
    [][ ( lastEvent' = "Frame" /\ state'.animationActive )
        => ( /\ current_vehicle_pos'[2] >= state'.vehicleOriginalPos[2]
             /\ altitude' >= 0
             /\ ( state'.animationTime = 0
                   => current_vehicle_pos' = state'.vehicleOriginalPos )
             /\ ( lastEvent = "Frame" /\ state.animationActive
                     /\ state'.animationTime >= state.animationTime
                   => current_vehicle_pos'[2] >= current_vehicle_pos[2] ) ) ]_vars

\* the vehicle has climbed: a frame found it above the launch origin and
\* above y = 0
C15_Witness ==
    /\ lastEvent = "Frame"
    /\ state.animationActive
    /\ state.animationTime > 0
    /\ deltaTime > 0
    /\ altitude > 0
    /\ current_vehicle_pos[2] > 0

\* trace of transpose(a) * b for the rotation parts of two matrices, in
\* 1/1000: 1 + 2 cos(angle between the two orientations)
RotationAgreement(a, b) ==
    DivT(a[1] * b[1] + a[2] * b[2] + a[3] * b[3]
           + a[5] * b[5] + a[6] * b[6] + a[7] * b[7]
           + a[9] * b[9] + a[10] * b[10] + a[11] * b[11], DirScale)

\* the angle (mrad) an orientation may turn in eps ms: 1.5 rad/s, the
\* tangent of the trajectory turns at most 1.34 rad/s
TurnBound(eps) == (1500 * eps) \div MsPerSecond

\* two orientations evaluated eps ms apart differ by at most TurnBound(eps),
\* within the rounding of the matrix entries (0.02 in the trace)
WithinTurnBound(a, b, eps) ==
    RotationAgreement(a, b) >= DirScale + 2 * Cos(TurnBound(eps)) - 20

\* C16 as stated: the rotations evaluated in two consecutive frames of the
\* active animation, eps apart in elapsed time, differ by an angle bounded in
\* proportion to eps, from elapsed = 0 on.
C16_AsStated ==
    [][ ( /\ lastEvent = "Frame" /\ lastEvent' = "Frame"
          /\ state.animationActive /\ state'.animationActive
          /\ state'.animationTime >= state.animationTime )
        => WithinTurnBound(vehicle_rotation, vehicle_rotation',
                           state'.animationTime - state.animationTime) ]_vars

\* C17: kIdentity44f * A is A element for element, A * (k * I) is k times
\* every element of A, and kIdentity44f * v is v, for every matrix A, factor
\* k and vector v of the test case.
C17_IdentityAndScalarProducts ==
    /\ multTest.section = "Identity multiplication"
         => \A idx \in 1 .. 16 : multTest.result[idx] = multTest.a[idx]
    /\ multTest.section = "Known multiplication"
         => \A idx \in 1 .. 16 :
               multTest.result[idx] = DivT(multTest.k * multTest.a[idx], DirScale)
    /\ multTest.section = "Identity transformation"
         => \A i \in 1 .. 4 : multTest.result[i] = multTest.v[i]

\* the identity product of a matrix that is not symmetric has been computed
C17_Witness ==
    /\ multTest.section = "Identity multiplication"
    /\ multTest.a[2] # multTest.a[5]
    /\ multTest.a[1] < 0
    /\ multTest.result = multTest.a

\* the three rigs of State
Rigs == {"main", "left", "right"}

\* the mode a camera-cycle request moves a rig to
NextMode(mode) ==
    IF mode = "Free" THEN "Follow" ELSE IF mode = "Follow" THEN "Ground" ELSE "Free"

\* C18: a C key press advances the mode of exactly one rig, Free -> Follow ->
\* Ground -> Free: the main rig in single view, the left rig without Shift
\* and the right rig with Shift in split view.  The mode, camera and saved
\* free camera of the other rigs stay as they are, and the saved free camera
\* of the cycled rig is written only on the step from Free to Follow.
C18_CycleOneRig ==
    [][ lastEvent' = "KeyC"
        => LET rig == CycledRig(state, window'.leftShift \/ window'.rightShift)
           IN /\ rig = IF ~state.splitScreenMode THEN "main"
                       ELSE IF window'.leftShift \/ window'.rightShift
                            THEN "right" ELSE "left"
              /\ RigMode(state', rig) = NextMode(RigMode(state, rig))
              /\ \A other \in Rigs \ {rig} :
                    /\ RigMode(state', other) = RigMode(state, other)
                    /\ RigCamera(state', other) = RigCamera(state, other)
                    /\ RigFreeCamera(state', other) = RigFreeCamera(state, other)
              /\ RigMode(state, rig) # "Free"
                    => RigFreeCamera(state', rig) = RigFreeCamera(state, rig)
              /\ RigMode(state, rig) = "Free"
                    => RigFreeCamera(state', rig) = RigCamera(state, rig)
              /\ state'.splitScreenMode = state.splitScreenMode ]_vars

\* Shift+C has cycled the right rig from Follow to Ground in split view while
\* the left rig is on its own excursion
C18_Witness ==
    /\ lastEvent = "KeyC"
    /\ state.splitScreenMode
    /\ window.leftShift
    /\ state.rightCameraMode = "Ground"
    /\ state.leftCameraMode = "Follow"
    /\ state.leftFreeCamera # state.rightFreeCamera

\* the rigs the camera update of a frame updates
UpdatedRigs(S) == IF S.splitScreenMode THEN {"left", "right"} ELSE {"main"}

\* C19: after a frame, a rig in Follow or Ground mode has the position,
\* basis, yaw and pitch that the frame's vehicle pose and the vehicle's
\* original position give to any camera: the same as a freshly constructed
\* camera would get, and the same as the other rig in the same mode; in
\* Ground mode the position is the original position + 20 m in x and in z at
\* height 5 m.
C19_NoPersistence ==
    lastEvent \in FrameEvents =>
        /\ \A rig \in UpdatedRigs(state) :
              /\ RigMode(state, rig) = "Follow"
                    => RigCamera(state, rig)
                         = FollowCamera(NewCamera, current_vehicle_pos, vehicle_rotation)
              /\ RigMode(state, rig) = "Ground"
                    => /\ RigCamera(state, rig)
                            = GroundCamera(NewCamera, current_vehicle_pos,
                                           state.vehicleOriginalPos)
                       /\ RigCamera(state, rig).position
                            = <<state.vehicleOriginalPos[1] + 200, 50,
                                state.vehicleOriginalPos[3] + 200>>
        /\ ( /\ state.splitScreenMode
              /\ state.leftCameraMode = state.rightCameraMode
              /\ state.leftCameraMode # "Free" )
            => state.leftCamera = state.rightCamera

\* in flight, both rigs of the split view are in Ground mode after a frame,
\* having come there from different cameras
C19_Witness ==
    /\ lastEvent = "Frame"
    /\ state.splitScreenMode
    /\ state.leftCameraMode = "Ground"
    /\ state.rightCameraMode = "Ground"
    /\ state.animationTime > 0
    /\ state.leftFreeCamera # state.rightFreeCamera
    /\ state.leftFreeCamera.yaw # NewCamera.yaw
    /\ state.leftCamera = state.rightCamera

\* the vehicle poses the frames of a run evaluate: at rest, and in flight at
\* every elapsed time the frame steps add up to
VehiclePoses ==
    {EvaluatePose(FALSE, 0, vehicleOriginalPos)}
      \cup {EvaluatePose(TRUE, k * DtStepMs, vehicleOriginalPos) :
               k \in 0 .. (MaxWallTime \div DtStepMs)}

\* the cameras the Follow and Ground branches compute for these poses
ComputedCameras ==
    {FollowCamera(NewCamera, p.pos, p.rot) : p \in VehiclePoses}
      \cup {GroundCamera(NewCamera, p.pos, vehicleOriginalPos) : p \in VehiclePoses}

\* C20 as stated: no saved free camera (main, left, right) ever holds a
\* camera computed by Follow or Ground, and a rig in Free mode, in particular
\* one a cycle request has just returned to Free, has no such camera either.
C20_AsStated ==
    \A rig \in Rigs :
        /\ RigFreeCamera(state, rig) \notin ComputedCameras
        /\ RigMode(state, rig) = "Free" => RigCamera(state, rig) \notin ComputedCameras

\* C21 as stated: when a pointer event turns the camera of the rig that
\* receives input (Free mode, look active), the yaw changes by the pointer's
\* horizontal motion of that event alone, from where the window last reported
\* the cursor, times the sensitivity; motion the pointer made while the rig
\* was in Follow or Ground is not part of it.
C21_AsStated ==
    [][ ( /\ window'.cursor # window.cursor
          /\ state.mouseActive
          /\ InputMode(state) = "Free" )
        => RigCamera(state', IF state.splitScreenMode THEN "left" ELSE "main").yaw
             - RigCamera(state, IF state.splitScreenMode THEN "left" ELSE "main").yaw
           = (window'.cursor[1] - window.cursor[1]) * sensitivity ]_vars

\* the rig whose camera the pointer turns
InputRig(S) == IF S.splitScreenMode THEN "left" ELSE "main"

\* C22: the pitch of the camera the pointer turns is always within
\* [-maxPitch, maxPitch]; a pointer event that turns it adds the horizontal
\* motion times the sensitivity to the yaw, with no clamp, and sets the pitch
\* to the old pitch plus the vertical turn, clamped to +-maxPitch.
C22_PitchClamped ==
    [][ LET c == RigCamera(state, InputRig(state))
            c2 == RigCamera(state', InputRig(state))
            yawTurn == (window'.cursor[1] - state.lastMouseX) * sensitivity
            pitchTurn == (state.lastMouseY - window'.cursor[2]) * sensitivity
        IN /\ Abs(c.pitch) <= maxPitch
           /\ Abs(c2.pitch) <= maxPitch
           /\ ( /\ window'.cursor # window.cursor
                /\ state.mouseActive
                /\ InputMode(state) = "Free" )
              => /\ c2.yaw = c.yaw + yawTurn
                 /\ c2.pitch = Max(-maxPitch, Min(maxPitch, c.pitch + pitchTurn)) ]_vars

\* the pointer has pushed the pitch into the lower limit while the yaw went
\* beyond 1.55 rad; the forward vector still points the way the yaw says
C22_Witness ==
    /\ state.mouseActive
    /\ state.camera.pitch = -maxPitch
    /\ state.camera.yaw > maxPitch
    /\ window.cursor = <<1000, 900>>
    /\ state.camera.forward[2] < 0

\* a slot holds a particle that emit_particles wrote in the frame just run
FreshlyEmitted(p) ==
    /\ p.active
    /\ p.position = enginePos'
    /\ p.color[4] = DirScale
    /\ \E d \in Draws : p = EmittedParticle(d, enginePos')

\* C23: in every frame's particle update, a slot that was active has its
\* lifetime reduced by deltaTime.  If the reduced lifetime is positive the
\* particle stays in its slot, active, moved by velocity * deltaTime, with
\* alpha = lifetime / maxLifetime_ and velocity, size and rgb as before.  If
\* not, the slot is inactive with its position not advanced, unless the
\* emission of the same update has written a new particle into it.  A slot
\* that was inactive is active afterwards only if the update was emitting and
\* wanted at least one particle, and then holds a new particle.
C23_AgingPass ==
    [][ lastEvent' \in FrameEvents =>
          \A i \in 1 .. Len(particleSystem.particles_) :
             LET p == particleSystem.particles_[i]
                 q == particleSystem'.particles_[i]
                 life == p.lifetime - deltaTime'
                 wanted == ParticlesToEmit(particleSystem.emissionAccumulator_,
                                           particleSystem.emissionRate_, deltaTime')
                 emits == emitting' /\ wanted >= 1
             IN /\ Len(particleSystem'.particles_) = Len(particleSystem.particles_)
                /\ (p.active /\ life > 0)
                     => /\ q.active
                        /\ q.lifetime = life
                        /\ q.position = <<p.position[1] + DivT(p.velocity[1] * deltaTime', MsPerSecond),
                                          p.position[2] + DivT(p.velocity[2] * deltaTime', MsPerSecond),
                                          p.position[3] + DivT(p.velocity[3] * deltaTime', MsPerSecond)>>
                        /\ q.color[4] = (life * DirScale) \div particleSystem.maxLifetime_
                        /\ q.velocity = p.velocity /\ q.size = p.size
                        /\ \A k \in 1 .. 3 : q.color[k] = p.color[k]
                /\ (p.active /\ life <= 0)
                     => \/ /\ ~q.active
                           /\ q.lifetime = life
                           /\ q.position = p.position
                           /\ q.color = p.color
                        \/ emits /\ FreshlyEmitted(q)
                /\ ~p.active
                     => \/ q = p
                        \/ emits /\ FreshlyEmitted(q) ]_vars

\* after a frame with the clock paused, one particle has expired in its slot
\* where it was, and the particle in the other slot has moved on and faded
C23_Witness ==
    /\ lastEvent = "Frame"
    /\ ~emitting
    /\ deltaTime > 0
    /\ \E i, j \in 1 .. Len(particleSystem.particles_) :
          /\ ~particleSystem.particles_[i].active
          /\ particleSystem.particles_[i].lifetime <= 0
          /\ particleSystem.particles_[i].velocity # <<0, 0, 0>>
          /\ particleSystem.particles_[j].active
          /\ particleSystem.particles_[j].color[4] < DirScale
          /\ particleSystem.particles_[j].position # particleSystem.particles_[i].position

\* the slot of the k-th active particle in pool-scan order
ActiveSlot(ps, k) ==
    CHOOSE i \in 1 .. Len(ps) :
        /\ ps[i].active
        /\ Cardinality({j \in 1 .. i : ps[j].active}) = k

\* C24: after a frame has rendered, the draw list has one entry per active
\* slot and none for an inactive one, in increasing slot order, each entry
\* the position, colour and size of its particle; its length is the active
\* count and at most maxParticles_, the capacity of the vertex buffer; and
\* the pool is as the particle update of the frame left it.
C24_DrawList ==
    [][ lastEvent' \in FrameEvents =>
          LET ps == particleSystem'.particles_
              vd == particleSystem'.vertexData_
          IN /\ Len(vd) = ActiveCount(ps)
             /\ Len(vd) <= particleSystem'.maxParticles_
             /\ \A k \in 1 .. Len(vd) :
                   /\ vd[k].position = ps[ActiveSlot(ps, k)].position
                   /\ vd[k].color = ps[ActiveSlot(ps, k)].color
                   /\ vd[k].size = ps[ActiveSlot(ps, k)].size
             /\ \A k \in 1 .. Len(vd) - 1 : ActiveSlot(ps, k) < ActiveSlot(ps, k + 1)
             /\ \E ds \in DrawSeqs(DrawsWanted(state, particleSystem, deltaTime')) :
                   ps = ParticleUpdate(particleSystem.particles_,
                                       particleSystem.emissionAccumulator_,
                                       particleSystem.emissionRate_,
                                       particleSystem.maxLifetime_,
                                       deltaTime', enginePos', emitting', ds).particles ]_vars

\* the first slot holds an expired particle and the second an active one:
\* the draw list is the single entry of the second slot
C24_Witness ==
    /\ lastEvent = "Frame"
    /\ Len(particleSystem.particles_) = 2
    /\ ~particleSystem.particles_[1].active
    /\ particleSystem.particles_[1].lifetime < 0
    /\ particleSystem.particles_[2].active
    /\ Len(particleSystem.vertexData_) = 1
    /\ particleSystem.vertexData_[1].position = particleSystem.particles_[2].position
    /\ particleSystem.vertexData_[1].position # particleSystem.particles_[1].position

\* C25: while the animation is active, the velocity (tangent) the frame
\* evaluates is the zero vector exactly at elapsed = 0, where the rotation is
\* the identity; at every elapsed > 0 its vertical component is strictly
\* positive, so the tangent direction has a positive dot product with the
\* body axis (0, 1, 0) and the 180-degree fallback is not taken.
C25_TangentPointsUp ==
    (state.animationActive /\ lastEvent = "Frame") =>
        LET velocity == TrajectoryVelocity(state.animationTime)
        IN /\ velocity = <<0, 0, 0>> <=> state.animationTime = 0
           /\ state.animationTime = 0 => vehicle_rotation = kIdentity44f
           /\ state.animationTime > 0
                => /\ velocity[2] > 0
                   /\ Dot(rocketForward, Normalize(velocity)) > 0
                   /\ ~ReversalFallbackTaken(velocity)
                   /\ vehicle_rotation = RotationFromVelocity(velocity)
                   /\ vehicle_rotation # make_rotation_y(PiMrad)

\* past the acceleration phase the position is frozen but the tangent still
\* points up and forward, and the vehicle is tilted
C25_Witness ==
    /\ state.animationActive
    /\ lastEvent = "Frame"
    /\ state.animationTime > accelerationPhase
    /\ TrajectoryVelocity(state.animationTime)[2] > 0
    /\ TrajectoryVelocity(state.animationTime)[3] < 0
    /\ vehicle_rotation # kIdentity44f

\* C26: a V press that enters split screen gives the left rig the main rig's
\* camera, mode and saved free camera and puts the right rig in Follow,
\* whatever mode the right rig was in, and leaves the main rig's fields as
\* they are; a second V press delivered right after it returns to single
\* screen with the main rig's camera, mode and saved free camera as they
\* were before the first.
C26_SplitToggleRoundTrip ==
    [][ (~state.splitScreenMode /\ state'.splitScreenMode)
        => /\ state'.leftCamera = state.camera
           /\ state'.leftCameraMode = state.cameraMode
           /\ state'.leftFreeCamera = state.freeCamera
           /\ state'.rightCameraMode = "Follow"
           /\ state'.camera = state.camera
           /\ state'.cameraMode = state.cameraMode
           /\ state'.freeCamera = state.freeCamera
           /\ LET back == glfw_callback_key_(state', "V", TRUE,
                                             window'.leftShift \/ window'.rightShift)
              IN /\ ~back.splitScreenMode
                 /\ back.camera = state.camera
                 /\ back.cameraMode = state.cameraMode
                 /\ back.freeCamera = state.freeCamera ]_vars

\* split screen has been entered in flight with the main rig in Ground mode:
\* the left rig has the main rig's camera, mode and saved free camera, which
\* differ from what the right rig was given, and the right rig is in Follow
C26_Witness ==
    /\ state.splitScreenMode
    /\ state.animationTime > 0
    /\ state.cameraMode = "Ground"
    /\ state.leftCameraMode = "Ground"
    /\ state.leftCamera = state.camera
    /\ state.leftFreeCamera = state.freeCamera
    /\ state.leftFreeCamera # state.rightFreeCamera
    /\ state.rightCameraMode = "Follow"
    /\ state.rightCamera = state.camera

\* C27: after a frame whose particle update was emitting, the accumulator is
\* the fractional part of (accumulator before + rate * deltaTime), in [0, 1);
\* the update has activated min(wanted, free slots) particles, where wanted
\* is the integer part of that sum: what it could not place is in neither
\* the accumulator nor any later update's count.
C27_AccumulatorBelowOne ==
    [][ (lastEvent' \in FrameEvents /\ emitting')
        => LET total == particleSystem.emissionAccumulator_
                          + particleSystem.emissionRate_ * deltaTime'
               wanted == total \div MsPerSecond
               free == FreeSlots(AgeAll(particleSystem.particles_, deltaTime',
                                        particleSystem.maxLifetime_))
               activatedNow == emission'.activated - emission.activated
           IN /\ particleSystem.emissionAccumulator_ \in 0 .. MsPerSecond - 1
              /\ particleSystem'.emissionAccumulator_ \in 0 .. MsPerSecond - 1
              /\ particleSystem'.emissionAccumulator_ = total - wanted * MsPerSecond
              /\ activatedNow = Min(wanted, free)
              /\ ActiveCount(particleSystem'.particles_)
                   = Len(particleSystem.particles_) - free + activatedNow ]_vars

\* an emitting update has found the pool full and dropped particles, and the
\* accumulator holds half a particle
C27_Witness ==
    /\ lastEvent = "Frame"
    /\ emitting
    /\ emission.overrun
    /\ FreeSlots(particleSystem.particles_) = 0
    /\ particleSystem.emissionAccumulator_ = 500

\* C28: a frame whose particle update is not emitting activates no slot (an
\* inactive slot is left as it is), leaves the accumulator unchanged, and
\* every slot active after it was active before it; and once such updates
\* have added up to maxLifetime_ since the last emitting one, every slot is
\* inactive.
C28_DrainWithoutEmission ==
    [][ (lastEvent' \in FrameEvents /\ ~emitting')
        => /\ \A i \in 1 .. Len(particleSystem.particles_) :
                 /\ ~particleSystem.particles_[i].active
                      => particleSystem'.particles_[i] = particleSystem.particles_[i]
                 /\ particleSystem'.particles_[i].active
                      => particleSystem.particles_[i].active
           /\ particleSystem'.emissionAccumulator_ = particleSystem.emissionAccumulator_
           /\ emission'.activated = emission.activated
           /\ emission'.draining >= particleSystem.maxLifetime_
                => ActiveCount(particleSystem'.particles_) = 0 ]_vars

\* the pool has drained for exactly maxLifetime_: the particle emitted last
\* with the longest lifetime has just expired, half a particle is still in
\* the accumulator
C28_Witness ==
    /\ lastEvent = "Frame"
    /\ ~emitting
    /\ emission.draining = particleSystem.maxLifetime_
    /\ ActiveCount(particleSystem.particles_) = 0
    /\ particleSystem.emissionAccumulator_ = 500
    /\ \E i \in 1 .. Len(particleSystem.particles_) :
          /\ particleSystem.particles_[i].lifetime = 0
          /\ particleSystem.particles_[i].velocity # <<0, 0, 0>>

\* C29: the emitting flag of a frame is the clock being Running (active and
\* not paused) when the frame starts, which is when its particle update
\* executes: the callbacks of the buttons run later in the frame.  A frame
\* activates a particle only with the clock Running; with the clock Idle or
\* Paused it activates none, and the pool after the frame is the pool with
\* every active particle aged by deltaTime.
C29_EmitsOnlyWhileRunning ==
    [][ lastEvent' \in FrameEvents
        => LET running == state.animationActive /\ ~state.animationPaused
           IN /\ emitting' = running
              /\ emission'.activated > emission.activated => running
              /\ ~running
                   => /\ emission'.activated = emission.activated
                      /\ \A i \in 1 .. Len(particleSystem.particles_) :
                            LET p == particleSystem.particles_[i]
                                q == particleSystem'.particles_[i]
                            IN /\ ~p.active => q = p
                               /\ p.active => /\ q.lifetime = p.lifetime - deltaTime'
                                              /\ q.active = (q.lifetime > 0) ]_vars

\* the frame in which Reset was clicked has still emitted, the clock having
\* been Running when its particle update ran, and has left the clock Idle
C29_Witness ==
    /\ lastEvent = "Reset"
    /\ ~state.animationActive
    /\ emitting
    /\ \E i \in 1 .. Len(particleSystem.particles_) :
          /\ particleSystem.particles_[i].active
          /\ particleSystem.particles_[i].position = enginePos
          /\ particleSystem.particles_[i].color[4] = DirScale

\* the buttons of the UISystem and the value of lastEvent a frame leaves when
\* the button's onClick callback ran in it
ButtonCallbacks == {<<"launchButton", "Launch">>, <<"resetButton", "Reset">>}

\* C30: in the UI update of a frame a button calls onClick exactly when the
\* pointer is inside it with the mouse button up and the update before left
\* it Pressed; and after the frame's update, whose inputs are the window's
\* cursor and mouse button, a next update with any cursor and button calls
\* onClick exactly when that cursor is inside with the button up and this
\* frame's cursor was inside with the button down.  After a click, a further
\* update with the button still up does not call it again.
C30_ClickOnReleaseInside ==
    [][ lastEvent' \in FrameEvents
        => \A bc \in ButtonCallbacks :
              LET b == uiSystem[bc[1]]
                  after == uiSystem'[bc[1]]
                  fired == lastEvent' = bc[2]
                  insideNow == is_point_inside(b, window.cursor[1], window.cursor[2])
              IN /\ fired <=> ( /\ insideNow
                                /\ ~window.leftButton
                                /\ b.state_ = "Pressed" )
                 /\ \A pt \in CursorPoints, down \in BOOLEAN :
                       UIButtonUpdate(after, pt[1], pt[2], down).clicked
                         <=> ( /\ is_point_inside(after, pt[1], pt[2]) /\ ~down
                               /\ insideNow /\ window.leftButton )
                 /\ after.state_ = "Pressed" <=> (insideNow /\ window.leftButton)
                 /\ fired => \A pt \in CursorPoints :
                                ~UIButtonUpdate(after, pt[1], pt[2], FALSE).clicked ]_vars

\* the Reset button has been clicked in a frame after the first two: it is
\* Hovered with the press forgotten, the Launch button is at rest and the
\* clock is back at zero
C30_Witness ==
    /\ lastEvent = "Reset"
    /\ ~window.leftButton
    /\ is_point_inside(uiSystem.resetButton, window.cursor[1], window.cursor[2])
    /\ uiSystem.resetButton.state_ = "Hovered"
    /\ ~uiSystem.resetButton.wasPressed_
    /\ uiSystem.launchButton.state_ = "Normal"
    /\ state.animationTime = 0
    /\ lastTime > DtStepMs

====
